---- MODULE Spec2Model ----
(***************************************************************************)
(* NoPause: the real-time speech-session pipeline.                         *)
(*                                                                         *)
(*   SpecAnalyzer  AudioAnalyzer (audio/speechAnalyzer.js): delta-time     *)
(*                 accounting, hysteresis classification, hesitations.     *)
(*   SpecAccum     createTranscriptAccumulator (transcriptAccumulator.js). *)
(*   SpecEngine    createHybridTranscriptionEngine with its two providers, *)
(*                 one step per synchronous run of code between awaits.    *)
(*                                                                         *)
(* Times are milliseconds as Date.now() returns them.  Volumes are in      *)
(* units of 0.001 RMS, so SPEECH_THRESHOLD 0.01 is 10 and the off          *)
(* threshold 0.01 x 0.7 is 7; the mean of the smoothing window is compared *)
(* with a threshold exactly, as sum > threshold x length.  A nullable      *)
(* timestamp is 0 when null: the code only ever tests such a field for     *)
(* truthiness, which null and 0 both fail.                                 *)
(***************************************************************************)
EXTENDS Integers, Sequences, FiniteSets, TLC

VARIABLES
  now,              \* the wall clock, Date.now()
  an,               \* the AudioAnalyzer object's fields
  onHesitationLog,  \* the calls of options.onHesitation: <<duration, count>>
  onCalibratedLog,  \* the calls of options.onCalibrated: <<sum, n>> of the noise samples
  startResult,      \* what start() returned: "none" (not called), "ok" or "failed"
  stopResult,       \* what each stop() call returned, in call order
  runStart,         \* history: time of the first silent sample of the silence run in
                    \* progress that followed speech (0: no such run in progress)
  calls,            \* history: number of start/_analyze/stop calls made so far
  finalSegments,    \* accumulator: the accepted final segments, in order
  finalKeys,        \* accumulator: the dedupe keys of the accepted finals
  partialSegment,   \* accumulator: <<>> (null) or <<the pending partial>>
  accLast,          \* the last accumulator call: its operation, argument and result
  eng,              \* the hybrid engine, its providers and the microtask queue
  ops,              \* history: number of calls of the engine's methods so far
  runtimeInfo,      \* config.runtimeInfo of the hybrid engine
  up                \* one ServerTranscriptionProvider: its fields, its running
                    \* _drainQueue() calls and the history of its uploads

anVars == <<now, an, onHesitationLog, onCalibratedLog, startResult, stopResult,
           runStart, calls>>

accVars == <<finalSegments, finalKeys, partialSegment, accLast>>

engVars == <<eng, ops, runtimeInfo>>

upVars == <<up>>

vars == <<anVars, accVars, engVars, upVars>>

----------------------------------------------------------------------------
(* Bounds of the model *)

\* Date.now() when the analyzer is constructed.
Epoch == 50000
\* Calls of start(), _analyze() and stop() explored per session.
MaxCalls == 7
\* stop() calls explored per analyzer.
MaxStops == 2

\* Change of Date.now() between two calls of the analyzer.  17 ms is shorter than
\* the 33 ms throttle (two of them are not); 33+1766 = 1799 and 17+17+1766 = 1800
\* are the two sides of hesitationMinDuration; 1766 alone ends the 1500 ms
\* calibration; -20 is the wall clock set back between two calls.
ClockSteps == {-20, 17, 33, 1766}

\* Volume of one frame (RMS of the analyser's time-domain data), in 0.001 units.
\* With these the window's mean falls exactly on the off threshold ([14,0] = 7),
\* strictly between the thresholds ([14,0,14] = 9.33) and on either side of both.
RmsValues == {0, 14}

\* Accepted final segments explored per accumulator.
MaxFinals == 2

\* Segment texts, as sequences of characters: empty, blank, padded, upper and
\* lower case, inner whitespace runs.
Texts ==
  { <<>>, <<" ">>, <<"a">>, <<" ", "A">>, <<"a", "\t", " ", "b">> }

\* Segment offsets in half milliseconds (1 is 0.5 ms), <<>> for null.
Stamps ==
  { [ source |-> "browser", startMs |-> <<>>,  endMs |-> <<>> ],
    [ source |-> "server",  startMs |-> <<1>>, endMs |-> <<8>> ],
    [ source |-> "server",  startMs |-> <<2>>, endMs |-> <<8>> ] }

\* Provider instances that can still act, SpeechRecognition objects that can
\* still raise an event, and calls of the engine's methods explored.
MaxProviders == 2
MaxRecognitions == 2
MaxOps == 2

\* Chunks the MediaRecorder delivers, and segments in one response.
MaxChunks == 2
MaxSegments == 1

\* Date.now() - startedAtMs at a data event, in ms: one timeslice and two, in
\* either order (the clock can be set back between two events).
ElapsedValues == {4000, 8000}

\* config.runtimeInfo: a supported browser, an insecure page, an unsupported
\* browser, no SpeechRecognition.
RuntimeInfos ==
  { [ hasSpeechRecognition |-> TRUE,  isSecure |-> TRUE,  browserName |-> "Chrome" ],
    [ hasSpeechRecognition |-> TRUE,  isSecure |-> FALSE, browserName |-> "Chrome" ],
    [ hasSpeechRecognition |-> TRUE,  isSecure |-> TRUE,  browserName |-> "Firefox" ],
    [ hasSpeechRecognition |-> FALSE, isSecure |-> TRUE,  browserName |-> "Unknown" ] }

\* The segments passed to addSegment.  The id field is left out: the accumulator
\* copies it and never reads it.
Segments ==
  { [ text |-> t, startMs |-> st.startMs, endMs |-> st.endMs,
      isFinal |-> f, source |-> st.source ] :
    t \in Texts, st \in Stamps, f \in BOOLEAN }

----------------------------------------------------------------------------
(* AudioAnalyzer: constants *)

SPEECH_THRESHOLD == 10
SPEECH_OFF_MULTIPLIER_TENTHS == 7
HESITATION_MIN_DURATION == 1800
MICRO_PAUSE_IGNORE == 300
SMOOTHING_WINDOW == 10
CALIBRATION_DURATION == 1500
analyzeInterval == 33

speechOnThreshold == SPEECH_THRESHOLD
speechOffThreshold == (SPEECH_THRESHOLD * SPEECH_OFF_MULTIPLIER_TENTHS) \div 10
hesitationMinDuration == HESITATION_MIN_DURATION
microPauseFilter == MICRO_PAUSE_IGNORE

\* The volume of a frame whose time-domain data hold a NaN: Math.sqrt of a NaN
\* sum.  No volume is negative, so -1 stands for it.
NaN == -1

\* reduce((a, b) => a + b, 0): NaN once a NaN was added.
RECURSIVE SumSeq(_)
SumSeq(s) ==
  IF s = <<>> THEN 0
  ELSE LET rest == SumSeq(Tail(s))
       IN  IF Head(s) = NaN \/ rest = NaN THEN NaN ELSE Head(s) + rest

\* constructor(): the fields the timing logic reads or writes.
NewAnalyzer ==
  [ speechOnThreshold |-> speechOnThreshold,
    speechOffThreshold |-> speechOffThreshold,
    isRunning |-> FALSE,
    animationFrame |-> FALSE,
    sessionStartTime |-> 0,
    lastFrameTime |-> 0,
    totalSpeakingTime |-> 0,
    totalSilenceTime |-> 0,
    hesitationSilenceTime |-> 0,
    hesitationCount |-> 0,
    currentSilenceStart |-> 0,
    isSpeaking |-> FALSE,
    hasSpokeAtLeastOnce |-> FALSE,
    hesitationTimings |-> <<>>,
    currentFlowStreakStart |-> 0,
    longestFlowStreak |-> 0,
    frameCount |-> 0,
    noiseFloor |-> <<0, 1>>,
    volumeSamples |-> <<>>,
    lastAnalyzeTime |-> 0,
    calibrationSamples |-> <<>>,
    isCalibrating |-> TRUE,
    calibrationStartTime |-> 0 ]

\* start(), lines 93-117: the assignments made once getUserMedia has resolved.
StartReset(a, t) ==
  [ a EXCEPT
    !.isRunning = TRUE,
    !.sessionStartTime = t,
    !.lastFrameTime = t,
    !.calibrationStartTime = t,
    !.totalSpeakingTime = 0,
    !.totalSilenceTime = 0,
    !.hesitationSilenceTime = 0,
    !.hesitationCount = 0,
    !.currentSilenceStart = 0,
    !.isSpeaking = FALSE,
    !.hasSpokeAtLeastOnce = FALSE,
    !.hesitationTimings = <<>>,
    !.currentFlowStreakStart = 0,
    !.longestFlowStreak = 0,
    !.frameCount = 0,
    !.noiseFloor = <<0, 1>>,
    !.volumeSamples = <<>>,
    !.calibrationSamples = <<>>,
    !.isCalibrating = TRUE ]

\* The throttle: a call less than analyzeInterval after the last processed one
\* only re-requests the animation frame.
Throttled(a, t) == t - a.lastAnalyzeTime < analyzeInterval

\* Smoothing: push, then keep the last SMOOTHING_WINDOW samples.
Smooth(samples, rms) ==
  LET pushed == Append(samples, rms)
  IN  IF Len(pushed) > SMOOTHING_WINDOW
      THEN SubSeq(pushed, Len(pushed) - SMOOTHING_WINDOW + 1, Len(pushed))
      ELSE pushed

\* smoothedRms > threshold, for smoothedRms = sum(samples) / samples.length.
\* A comparison with NaN is false.
SmoothedAbove(samples, threshold) ==
  /\ SumSeq(samples) # NaN
  /\ SumSeq(samples) > threshold * Len(samples)

\* Classify with one threshold for both directions: no hysteresis.
ClassifySingleThreshold(a, samples) ==
  SmoothedAbove(samples, a.speechOnThreshold)

\* Hysteresis classification.
Classify(a, samples) ==
  IF a.isSpeaking
  THEN SmoothedAbove(samples, a.speechOffThreshold)
  ELSE SmoothedAbove(samples, a.speechOnThreshold)

\* Delta time of a processed frame.
FrameDelta(a, t) == t - a.lastFrameTime

\* CalibrationEnds not reading isCalibrating.
CalibrationEndsAgain(a, t) ==
  t - a.calibrationStartTime >= CALIBRATION_DURATION

\* Calibration (informational): whether this frame ends the calibration window.
CalibrationEnds(a, t) ==
  a.isCalibrating /\ t - a.calibrationStartTime >= CALIBRATION_DURATION

\* TracksHesitation without the calibration gate.
TracksHesitationWhileCalibrating(isCalibrating, hasSpokeAtLeastOnce) ==
  hasSpokeAtLeastOnce

\* The gate of the hesitation tracking block.
TracksHesitation(isCalibrating, hasSpokeAtLeastOnce) ==
  ~ isCalibrating /\ hasSpokeAtLeastOnce

\* HesitationQualifies with the micro-pause filter alone.
HesitationQualifiesAnyPause(silenceDuration) ==
  silenceDuration >= microPauseFilter

\* HesitationQualifies with a strict comparison.
HesitationQualifiesStrict(silenceDuration) ==
  silenceDuration >= microPauseFilter /\ silenceDuration > hesitationMinDuration

\* A silence that ended counts as a hesitation.
HesitationQualifies(silenceDuration) ==
  silenceDuration >= microPauseFilter /\ silenceDuration >= hesitationMinDuration

\* What one processed frame decides from the state before it:
\* the classification, and whether the frame records a hesitation.
FrameFacts(a, t, rms) ==
  LET samples == Smooth(a.volumeSamples, rms)
      wasSpeaking == a.isSpeaking
      isSpeaking == Classify(a, samples)
      isCalibrating == a.isCalibrating /\ ~ CalibrationEnds(a, t)
      hasSpoke == a.hasSpokeAtLeastOnce \/ isSpeaking
      tracks == TracksHesitation(isCalibrating, hasSpoke)
      resumes == tracks /\ isSpeaking /\ ~ wasSpeaking /\ a.currentSilenceStart # 0
      silenceDuration == t - a.currentSilenceStart
  IN  [ samples |-> samples,
        wasSpeaking |-> wasSpeaking,
        isSpeaking |-> isSpeaking,
        isCalibrating |-> isCalibrating,
        calibrated |-> CalibrationEnds(a, t),
        hasSpoke |-> hasSpoke,
        tracks |-> tracks,
        resumes |-> resumes,
        silenceDuration |-> silenceDuration,
        hesitation |-> resumes /\ HesitationQualifies(silenceDuration) ]

\* _analyze() at time t with frame volume rms, once past the isRunning guard and
\* the throttle.
ProcessFrame(a, t, rms) ==
  LET f == FrameFacts(a, t, rms)
      delta == FrameDelta(a, t)
      calSamples == IF a.isCalibrating THEN Append(a.calibrationSamples, rms)
                    ELSE a.calibrationSamples
      streakEnds == ~ f.isSpeaking /\ f.wasSpeaking /\ a.currentFlowStreakStart # 0
      streak == t - a.currentFlowStreakStart
  IN  [ a EXCEPT
        !.lastAnalyzeTime = t,
        !.frameCount = @ + 1,
        !.lastFrameTime = t,
        !.volumeSamples = f.samples,
        !.calibrationSamples = calSamples,
        !.isCalibrating = f.isCalibrating,
        !.noiseFloor = IF f.calibrated THEN <<SumSeq(calSamples), Len(calSamples)>> ELSE @,
        !.isSpeaking = f.isSpeaking,
        !.totalSpeakingTime = IF f.isSpeaking THEN @ + delta ELSE @,
        !.totalSilenceTime = IF f.isSpeaking THEN @ ELSE @ + delta,
        !.hasSpokeAtLeastOnce = f.hasSpoke,
        !.currentFlowStreakStart =
            IF f.isSpeaking
            THEN (IF ~ f.wasSpeaking THEN t ELSE @)
            ELSE (IF streakEnds THEN 0 ELSE @),
        !.longestFlowStreak =
            IF streakEnds /\ streak > @ THEN streak ELSE @,
        !.currentSilenceStart =
            IF ~ f.tracks THEN @
            ELSE IF ~ f.isSpeaking THEN (IF f.wasSpeaking THEN t ELSE @)
            ELSE IF f.resumes THEN 0 ELSE @,
        !.hesitationSilenceTime = IF f.hesitation THEN @ + f.silenceDuration ELSE @,
        !.hesitationCount = IF f.hesitation THEN @ + 1 ELSE @,
        !.hesitationTimings =
            IF f.hesitation
            THEN Append(@, [ startOffset |-> a.currentSilenceStart - a.sessionStartTime,
                             duration |-> f.silenceDuration ])
            ELSE @,
        !.animationFrame = TRUE ]

\* Whether a call of _analyze() at time t processes a frame.
Processes(a, t) == a.isRunning /\ ~ Throttled(a, t)

\* Analyze taking the frame time before the throttle returns.
AnalyzeThrottleMovesFrameTime(a, t, rms) ==
  IF ~ a.isRunning THEN a
  ELSE IF Throttled(a, t) THEN [ a EXCEPT !.animationFrame = TRUE, !.lastFrameTime = t ]
  ELSE ProcessFrame(a, t, rms)

\* _analyze() at time t.
Analyze(a, t, rms) ==
  IF ~ a.isRunning THEN a
  ELSE IF Throttled(a, t) THEN [ a EXCEPT !.animationFrame = TRUE ]
  ELSE ProcessFrame(a, t, rms)

\* StopTiming adding the final delta to the speaking time whatever the state.
StopTimingAlwaysSpeaking(a, t) ==
  [ a EXCEPT
    !.isRunning = FALSE,
    !.totalSpeakingTime = IF a.lastFrameTime # 0 THEN @ + (t - a.lastFrameTime) ELSE @,
    !.animationFrame = FALSE ]

\* StopTiming counting a silence still in progress as a hesitation.
StopTimingCountsTrailingSilence(a, t) ==
  LET trailing == ~ a.isSpeaking /\ a.currentSilenceStart # 0
                  /\ HesitationQualifies(t - a.currentSilenceStart)
  IN  [ a EXCEPT
        !.isRunning = FALSE,
        !.totalSpeakingTime = IF a.lastFrameTime # 0 /\ a.isSpeaking
                              THEN @ + (t - a.lastFrameTime) ELSE @,
        !.totalSilenceTime = IF a.lastFrameTime # 0 /\ ~ a.isSpeaking
                             THEN @ + (t - a.lastFrameTime) ELSE @,
        !.hesitationCount = IF trailing THEN @ + 1 ELSE @,
        !.hesitationSilenceTime = IF trailing THEN @ + (t - a.currentSilenceStart) ELSE @,
        !.animationFrame = FALSE ]

\* StopTiming leaving the flow streak of a run in progress out.
StopTimingIgnoresStreak(a, t) ==
  LET finalDelta == t - a.lastFrameTime
      counted == a.lastFrameTime # 0
  IN  [ a EXCEPT
        !.isRunning = FALSE,
        !.totalSpeakingTime = IF counted /\ a.isSpeaking THEN @ + finalDelta ELSE @,
        !.totalSilenceTime = IF counted /\ ~ a.isSpeaking THEN @ + finalDelta ELSE @,
        !.animationFrame = FALSE ]

\* stop() at time t: the synchronous part, lines 295-316.
StopTiming(a, t) ==
  LET finalDelta == t - a.lastFrameTime
      streak == t - a.currentFlowStreakStart
      counted == a.lastFrameTime # 0
  IN  [ a EXCEPT
        !.isRunning = FALSE,
        !.totalSpeakingTime = IF counted /\ a.isSpeaking THEN @ + finalDelta ELSE @,
        !.totalSilenceTime = IF counted /\ ~ a.isSpeaking THEN @ + finalDelta ELSE @,
        !.longestFlowStreak =
            IF counted /\ a.isSpeaking /\ a.currentFlowStreakStart # 0 /\ streak > @
            THEN streak ELSE @,
        !.animationFrame = FALSE ]

\* What stop() called at time t returns; a is the analyzer after StopTiming.
StopReturn(a, t) ==
  [ hesitationCount |-> a.hesitationCount,
    hesitationTimings |-> a.hesitationTimings,
    longestFlowStreak |-> a.longestFlowStreak,
    frameCount |-> a.frameCount,
    totalTime |-> IF a.sessionStartTime # 0 THEN t - a.sessionStartTime ELSE 0 ]

----------------------------------------------------------------------------
(* Hybrid transcription engine: state of the engine and of its providers *)

maxBrowserErrors == 3
maxBrowserRestarts == 4

\* The engine's closure variables, every provider instance it has created that
\* can still act, every SpeechRecognition object that can still raise an
\* event, and the microtask queue.  provider is 0 for null, else the slot of
\* the instance.  browserRestartTimer tells whether the variable holds a timer
\* id, timerPending whether that timeout is still to fire.  History: restarts
\* counts the restart timer's calls of provider.start() since the engine was
\* created, as far as maxBrowserRestarts + 1, and wasReset tells whether
\* resetTranscript() has been called.
FreeProvider ==
  [ kind |-> "free", active |-> FALSE, recognition |-> 0, stream |-> FALSE,
    mediaRecorder |-> FALSE, recorder |-> "none", gum |-> FALSE, stop |-> "none" ]

\* new BrowserTranscriptionProvider(callbacks).  recognition: 0 is null, -1 an
\* object that has ended, else the slot of the object.
NewBrowserProvider == [ FreeProvider EXCEPT !.kind = "browser" ]

\* new ServerTranscriptionProvider(callbacks, server).  recorder is the state of
\* the MediaRecorder object created by start(), whether or not the field
\* mediaRecorder still refers to it; gum: getUserMedia is pending.
NewServerProvider == [ FreeProvider EXCEPT !.kind = "server" ]

FreeRecognition == [ prov |-> 0, st |-> "free" ]

NewEngine ==
  [ providerType |-> "idle", provider |-> 0,
    browserErrorCount |-> 0, browserRestartCount |-> 0,
    browserRestartTimer |-> FALSE, timerPending |-> FALSE,
    stoppedManually |-> FALSE,
    provs |-> [ i \in 1..MaxProviders |-> FreeProvider ],
    recs |-> [ r \in 1..MaxRecognitions |-> FreeRecognition ],
    micro |-> <<>>,
    restarts |-> 0, wasReset |-> FALSE,
    overflow |-> FALSE ]

\* A suspended async function of the engine: where it resumes (pc), how many
\* microtask turns pass before it does (hops), which function it belongs to
\* (kind: "start", "stop", "switch") and that function's locals.  History, of
\* a switchToServer: the provider it found in place in the browser state (out)
\* and whether a restart timeout was then pending (hadTimer).
Job(kind) ==
  [ pc |-> "none", hops |-> 0, kind |-> kind, p |-> 0, allow |-> FALSE,
    stream |-> FALSE, out |-> 0, started |-> FALSE, hadTimer |-> FALSE ]

Enqueue(s, job) == [ s EXCEPT !.micro = Append(@, job) ]

FreeProviderSlots(s) == { i \in 1..MaxProviders : s.provs[i].kind = "free" }
FreeRecognitionSlots(s) == { r \in 1..MaxRecognitions : s.recs[r].st = "free" }
Lowest(slots) == CHOOSE i \in slots : \A j \in slots : i <= j

\* A provider instance nothing refers to and that can do nothing any more.
Inert(s, i) ==
  LET pr == s.provs[i]
  IN  /\ pr.kind # "free"
      /\ i # s.provider
      /\ ~pr.active /\ ~pr.stream /\ ~pr.gum
      /\ pr.recorder \in {"none", "inactive"}
      /\ \A r \in 1..MaxRecognitions : s.recs[r].prov # i
      /\ \A k \in 1..Len(s.micro) : s.micro[k].p # i /\ s.micro[k].out # i

\* The place of slot i among the slots kept.
Rank(kept, i) == IF i <= 0 THEN i ELSE Cardinality({ j \in kept : j <= i })

\* Unreferenced inert instances are garbage; the instances and objects left are
\* moved to the lowest slots, in the order of their creation.
Settle(s) ==
  LET keptP == { i \in 1..MaxProviders : s.provs[i].kind # "free" /\ ~Inert(s, i) }
      keptR == { r \in 1..MaxRecognitions : s.recs[r].st # "free" }
      prov(j) == s.provs[CHOOSE i \in keptP : Rank(keptP, i) = j]
      rec(j) == s.recs[CHOOSE r \in keptR : Rank(keptR, r) = j]
  IN  [ s EXCEPT
          !.provider = Rank(keptP, @),
          !.provs = [ j \in 1..MaxProviders |->
                        IF j <= Cardinality(keptP)
                        THEN [ prov(j) EXCEPT !.recognition = Rank(keptR, @) ]
                        ELSE FreeProvider ],
          !.recs = [ j \in 1..MaxRecognitions |->
                       IF j <= Cardinality(keptR)
                       THEN [ rec(j) EXCEPT !.prov = Rank(keptP, @) ]
                       ELSE FreeRecognition ],
          !.micro = [ k \in 1..Len(s.micro) |->
                        [ s.micro[k] EXCEPT !.p = Rank(keptP, @),
                                            !.out = Rank(keptP, @) ] ] ]

----------------------------------------------------------------------------
(* The providers' stop() and the engine's closeProvider, switchToServer *)

\* The default of the engine's unsupportedBrowsers option.
DEFAULT_UNSUPPORTED_BROWSERS == {"Samsung Internet", "Firefox"}

\* shouldUseBrowserFirst() not looking at runtimeInfo.isSecure.
shouldUseBrowserFirstAnyContext(info) ==
  IF ~info.hasSpeechRecognition THEN FALSE
  ELSE IF info.browserName \in DEFAULT_UNSUPPORTED_BROWSERS THEN FALSE
  ELSE TRUE

\* shouldUseBrowserFirst(), with the default unsupportedBrowsers.
shouldUseBrowserFirst(info) ==
  IF ~info.hasSpeechRecognition THEN FALSE
  ELSE IF ~info.isSecure THEN FALSE
  ELSE IF info.browserName \in DEFAULT_UNSUPPORTED_BROWSERS THEN FALSE
  ELSE TRUE

clearBrowserRestartTimer(s) ==
  IF s.browserRestartTimer
  THEN [ s EXCEPT !.browserRestartTimer = FALSE, !.timerPending = FALSE ]
  ELSE s

\* BrowserTranscriptionProvider.stop(): no await, the promise is resolved on return.
BrowserStop(s, p) ==
  LET r == s.provs[p].recognition
  IN  IF r = 0 THEN [ s EXCEPT !.provs[p].stop = "resolved" ]
      ELSE [ s EXCEPT !.provs[p].recognition = 0,
                      !.provs[p].active = FALSE,
                      !.provs[p].stop = "resolved",
                      !.recs = IF r > 0 THEN [ @ EXCEPT ![r] = FreeRecognition ] ELSE @ ]

\* ServerTranscriptionProvider.stop() suspends at `await this._drainQueue()`.
ServerStopSuspends(s, p) == s.provs[p].kind = "server" /\ s.provs[p].mediaRecorder

\* ServerTranscriptionProvider.stop() up to its return or its await.
ServerStop(s, p) ==
  IF ~s.provs[p].mediaRecorder
  THEN [ s EXCEPT !.provs[p].stream = FALSE,
                  !.provs[p].active = FALSE,
                  !.provs[p].stop = "resolved" ]
  ELSE [ s EXCEPT !.provs[p].mediaRecorder = FALSE,
                  !.provs[p].recorder = IF @ = "recording" THEN "stopping" ELSE @,
                  !.provs[p].stop = "called" ]

\* ServerTranscriptionProvider.stop() after `await this._drainQueue()`.
ServerStopResumes(s, p) ==
  [ s EXCEPT !.provs[p].stream = FALSE,
             !.provs[p].active = FALSE,
             !.provs[p].stop = "resolved" ]

ProviderStop(s, p) ==
  IF s.provs[p].kind = "browser" THEN BrowserStop(s, p) ELSE ServerStop(s, p)

\* closeProvider leaving the restart timer alone.
closeProviderKeepsTimer(s, job) ==
  LET p == s.provider
  IN  IF p = 0 THEN Enqueue(s, [ job EXCEPT !.pc = "afterClose" ])
      ELSE IF ServerStopSuspends(s, p)
      THEN Enqueue(ProviderStop(s, p), [ job EXCEPT !.pc = "stopResumes", !.p = p ])
      ELSE Enqueue(ProviderStop(s, p), [ job EXCEPT !.pc = "afterStop" ])

\* closeProvider() up to its return or its await, called by the function job.
closeProvider(s, job) ==
  LET s1 == clearBrowserRestartTimer(s)
      p == s1.provider
  IN  IF p = 0 THEN Enqueue(s1, [ job EXCEPT !.pc = "afterClose" ])
      ELSE IF ServerStopSuspends(s1, p)
      THEN Enqueue(ProviderStop(s1, p), [ job EXCEPT !.pc = "stopResumes", !.p = p ])
      ELSE Enqueue(ProviderStop(s1, p), [ job EXCEPT !.pc = "afterStop" ])

\* closeProvider() after `await provider.stop()`.
closeProviderResumes(s, job) ==
  Enqueue([ s EXCEPT !.provider = 0, !.providerType = "idle" ],
          [ job EXCEPT !.pc = "afterClose", !.p = 0 ])

\* switchToServer(reason, { stream }) up to `await closeProvider()`.
switchToServer(s, stream) ==
  IF s.providerType = "server" THEN s
  ELSE closeProvider(s, [ Job("switch") EXCEPT
                            !.stream = stream,
                            !.out = IF s.providerType = "browser" THEN s.provider ELSE 0,
                            !.hadTimer = s.timerPending ])
----------------------------------------------------------------------------
(* The engine's callbacks and the providers' start() *)

\* callbacks.onStart clearing the restart count as well.
onStartClearsRestarts(s) ==
  IF s.providerType = "browser"
  THEN [ s EXCEPT !.browserErrorCount = 0, !.browserRestartCount = 0 ]
  ELSE s

\* callbacks.onStart
onStart(s) ==
  IF s.providerType = "browser" THEN [ s EXCEPT !.browserErrorCount = 0 ] ELSE s

\* callbacks.onError returning early only when the engine is idle.
onErrorInAnyState(s, code) ==
  IF s.providerType = "idle" THEN s
  ELSE IF code = "denied" THEN switchToServer(s, FALSE)
  ELSE LET s1 == [ s EXCEPT !.browserErrorCount = @ + 1 ]
       IN  IF s1.browserErrorCount >= maxBrowserErrors
           THEN switchToServer(s1, FALSE)
           ELSE s1

\* callbacks.onError switching only once the count is above maxBrowserErrors.
onErrorSwitchesLater(s, code) ==
  IF s.providerType # "browser" THEN s
  ELSE IF code = "denied" THEN switchToServer(s, FALSE)
  ELSE LET s1 == [ s EXCEPT !.browserErrorCount = @ + 1 ]
       IN  IF s1.browserErrorCount > maxBrowserErrors
           THEN switchToServer(s1, FALSE)
           ELSE s1

\* callbacks.onError up to its return or its await; code is "denied" for
\* 'not-allowed' and 'service-not-allowed', "other" for any other code.
onError(s, code) ==
  IF s.providerType # "browser" THEN s
  ELSE IF code = "denied" THEN switchToServer(s, FALSE)
  ELSE LET s1 == [ s EXCEPT !.browserErrorCount = @ + 1 ]
       IN  IF s1.browserErrorCount >= maxBrowserErrors
           THEN switchToServer(s1, FALSE)
           ELSE s1

\* callbacks.onEnd allowing one restart more than maxBrowserRestarts.
onEndRestartsOnceMore(s) ==
  IF s.providerType # "browser" \/ s.stoppedManually THEN s
  ELSE IF s.browserRestartCount > maxBrowserRestarts THEN switchToServer(s, FALSE)
  ELSE [ clearBrowserRestartTimer(s) EXCEPT
           !.browserRestartCount = @ + 1,
           !.browserRestartTimer = TRUE,
           !.timerPending = TRUE ]

\* callbacks.onEnd
onEnd(s) ==
  IF s.providerType # "browser" \/ s.stoppedManually THEN s
  ELSE IF s.browserRestartCount >= maxBrowserRestarts THEN switchToServer(s, FALSE)
  ELSE [ clearBrowserRestartTimer(s) EXCEPT
           !.browserRestartCount = @ + 1,
           !.browserRestartTimer = TRUE,
           !.timerPending = TRUE ]

\* BrowserTranscriptionProvider.start(): ok tells whether a SpeechRecognition
\* could be constructed.  The object the field referred to before keeps its
\* handlers.
BrowserStart(s, p, ok) ==
  IF ~ok THEN onError(s, "other")
  ELSE IF FreeRecognitionSlots(s) = {} THEN [ s EXCEPT !.overflow = TRUE ]
  ELSE LET r == Lowest(FreeRecognitionSlots(s))
       IN  [ s EXCEPT !.recs[r] = [ prov |-> p, st |-> "starting" ],
                      !.provs[p].recognition = r ]

\* ServerTranscriptionProvider.start() from the assignment of this.stream on:
\* ok tells whether the MediaRecorder could be constructed and started.
ServerStartWithStream(s, p, ok) ==
  IF ok
  THEN onStart([ s EXCEPT !.provs[p].stream = TRUE,
                          !.provs[p].mediaRecorder = TRUE,
                          !.provs[p].recorder = "recording",
                          !.provs[p].active = TRUE ])
  ELSE onError([ s EXCEPT !.provs[p].stream = TRUE ], "other")

\* ServerTranscriptionProvider.start({ stream }) up to its return or its await.
\* Without a stream, ok tells whether MediaRecorder is defined.
ServerStart(s, p, stream, ok) ==
  IF stream THEN ServerStartWithStream(s, p, ok)
  ELSE IF ~ok THEN onError(s, "other")
  ELSE [ s EXCEPT !.provs[p].gum = TRUE ]

\* startBrowser(), called by start(): the caller resumes two microtask turns
\* after the promise of provider.start() is resolved.
startBrowser(s, job, ok) ==
  IF FreeProviderSlots(s) = {} THEN [ s EXCEPT !.overflow = TRUE ]
  ELSE LET p == Lowest(FreeProviderSlots(s))
           s1 == [ s EXCEPT !.providerType = "browser", !.provider = p,
                            !.provs[p] = NewBrowserProvider ]
       IN  Enqueue(BrowserStart(s1, p, ok),
                   [ job EXCEPT !.pc = "afterStartBrowser", !.hops = 2, !.started = ok ])

\* startServer({ stream })
startServer(s, stream, ok) ==
  IF FreeProviderSlots(s) = {} THEN [ s EXCEPT !.overflow = TRUE ]
  ELSE LET p == Lowest(FreeProviderSlots(s))
           s1 == [ s EXCEPT !.providerType = "server", !.provider = p,
                            !.provs[p] = NewServerProvider ]
       IN  ServerStart(s1, p, stream, ok)

\* start({ preferBrowser, allowServerFallback, stream }) up to its return or
\* its await.
start(s, info, preferBrowser, allowServerFallback, stream, ok) ==
  LET s1 == [ s EXCEPT !.stoppedManually = FALSE ]
  IN  IF preferBrowser /\ shouldUseBrowserFirst(info)
      THEN startBrowser(s1, [ Job("start") EXCEPT !.allow = allowServerFallback,
                                                  !.stream = stream ], ok)
      ELSE IF ~allowServerFallback THEN s1
      ELSE startServer(s1, stream, ok)

\* What the promise of start() resolves to when start() reaches a return
\* without a pending await ("pending" otherwise): false for no browser attempt
\* and no fallback allowed, else what ServerTranscriptionProvider.start()
\* returns before its first await.
startReturns(info, preferBrowser, allowServerFallback, stream, ok) ==
  IF preferBrowser /\ shouldUseBrowserFirst(info) THEN "pending"
  ELSE IF ~allowServerFallback THEN "false"
  ELSE IF stream THEN (IF ok THEN "true" ELSE "false")
  ELSE IF ~ok THEN "false"
  ELSE "pending"

\* isActive()
isActive(s) == s.provider # 0 /\ s.provs[s.provider].active

\* stop() up to `await closeProvider()`.
stop(s) == closeProvider([ s EXCEPT !.stoppedManually = TRUE ], Job("stop"))

\* resetTranscript(): the engine's counters.
resetTranscript(s) ==
  [ s EXCEPT !.browserErrorCount = 0, !.browserRestartCount = 0,
             !.wasReset = TRUE ]

\* The function job resumes after `await closeProvider()`.
afterClose(s, job, ok) ==
  CASE job.kind = "stop" -> s
    [] job.kind = "switch" -> startServer(s, job.stream, ok)
    [] OTHER -> IF ~job.allow THEN s ELSE startServer(s, job.stream, ok)

\* start() resumes after `await startBrowser()`.
afterStartBrowser(s, job) ==
  IF job.started THEN s ELSE closeProvider(s, job)

\* The microtask at the head of the queue runs.
Resume(s, job, ok) ==
  IF job.hops > 0 THEN Enqueue(s, [ job EXCEPT !.hops = @ - 1 ])
  ELSE CASE job.pc = "stopResumes" ->
              Enqueue(ServerStopResumes(s, job.p), [ job EXCEPT !.pc = "afterStop" ])
         [] job.pc = "afterStop" -> closeProviderResumes(s, job)
         [] job.pc = "afterClose" -> afterClose(s, job, ok)
         [] OTHER -> afterStartBrowser(s, job)

\* The restart timer's callback.
restartTimerCallback(s, ok) ==
  LET s1 == [ s EXCEPT !.timerPending = FALSE ]
  IN  IF ~s1.stoppedManually /\ s1.providerType = "browser" /\ s1.provider # 0
      THEN BrowserStart([ s1 EXCEPT !.restarts =
                               IF @ > maxBrowserRestarts THEN @ ELSE @ + 1 ],
                        s1.provider, ok)
      ELSE s1

\* recognition.onstart
recognitionOnStart(s, r) ==
  onStart([ s EXCEPT !.recs[r].st = "running",
                     !.provs[s.recs[r].prov].active = TRUE ])

\* recognition.onerror reporting every error as a recoverable one.
recognitionOnErrorAllRecoverable(s, code) == onError(s, "other")

\* recognition.onerror
recognitionOnError(s, code) == onError(s, code)

\* recognition.onend: the object raises no event after it.
recognitionOnEnd(s, r) ==
  LET p == s.recs[r].prov
  IN  onEnd([ s EXCEPT !.recs[r] = FreeRecognition,
                       !.provs[p].active = FALSE,
                       !.provs[p].recognition = IF @ = r THEN -1 ELSE @ ])

\* getUserMedia settles and ServerTranscriptionProvider.start() resumes:
\* "ok", "rejected" (the promise rejects) or "throws" (the MediaRecorder cannot
\* be constructed on the stream).
getUserMediaSettles(s, p, outcome) ==
  LET s1 == [ s EXCEPT !.provs[p].gum = FALSE ]
  IN  IF outcome = "rejected" THEN onError(s1, "other")
      ELSE ServerStartWithStream(s1, p, outcome = "ok")

\* mediaRecorder.onstop
recorderOnStop(s, p) ==
  onEnd([ s EXCEPT !.provs[p].recorder = "inactive", !.provs[p].active = FALSE ])

\* mediaRecorder.onerror
recorderOnError(s) == onError(s, "media")

----------------------------------------------------------------------------
(* Transcript accumulator: text and key functions *)

\* \s of the regular expression, over the characters of Texts.
IsSpace(c) == c \in {" ", "\t"}

RECURSIVE TrimStart(_)
TrimStart(s) ==
  IF s # <<>> /\ IsSpace(Head(s)) THEN TrimStart(Tail(s)) ELSE s

RECURSIVE TrimEnd(_)
TrimEnd(s) ==
  IF s # <<>> /\ IsSpace(s[Len(s)]) THEN TrimEnd(SubSeq(s, 1, Len(s) - 1)) ELSE s

\* String.prototype.trim.
Trim(s) == TrimEnd(TrimStart(s))

\* replace(/\s+/g, ' '): every maximal run of whitespace becomes one space.
RECURSIVE CollapseSpaces(_)
CollapseSpaces(s) ==
  IF s = <<>> THEN <<>>
  ELSE IF IsSpace(Head(s))
       THEN <<" ">> \o CollapseSpaces(TrimStart(s))
       ELSE <<Head(s)>> \o CollapseSpaces(Tail(s))

LowerChar(c) == CASE c = "A" -> "a" [] c = "B" -> "b" [] OTHER -> c

\* toLowerCase.
ToLowerCase(s) == [ i \in 1..Len(s) |-> LowerChar(s[i]) ]

normalizeText(value) == ToLowerCase(CollapseSpaces(Trim(value)))

\* Math.round of an offset given in half milliseconds: halves round up.
MathRound(halves) == (halves + 1) \div 2

\* The start or end part of the key: 'na' for null, else the rounded offset.
KeyPart(ms) == IF ms = <<>> THEN <<>> ELSE <<MathRound(ms[1])>>

\* dedupeKey on the text as given, not normalized.
dedupeKeyRawText(segment) ==
  <<segment.source, KeyPart(segment.startMs), KeyPart(segment.endMs), segment.text>>

\* `${source}|${start}|${end}|${text}`: the four parts, which the string
\* determines (source and the two numbers hold no '|').
dedupeKey(segment) ==
  <<segment.source, KeyPart(segment.startMs), KeyPart(segment.endMs),
    normalizeText(segment.text)>>

\* The accumulator's closure state.
AccState == [ finalSegments |-> finalSegments, finalKeys |-> finalKeys,
              partialSegment |-> partialSegment ]

\* { ...segment, text: segment.text.trim() }
Trimmed(segment) == [ segment EXCEPT !.text = Trim(segment.text) ]

\* addSegment keeping the earlier partial beside the new one.
addSegmentKeepsPartials(acc, segment) ==
  IF Trim(segment.text) = <<>> THEN [ acc |-> acc, ret |-> FALSE ]
  ELSE IF segment.isFinal
  THEN IF dedupeKey(segment) \in acc.finalKeys THEN [ acc |-> acc, ret |-> FALSE ]
       ELSE [ acc |-> [ finalSegments |-> Append(acc.finalSegments, Trimmed(segment)),
                        finalKeys |-> acc.finalKeys \cup {dedupeKey(segment)},
                        partialSegment |-> <<>> ],
              ret |-> TRUE ]
  ELSE [ acc |-> [ acc EXCEPT !.partialSegment = Append(@, Trimmed(segment)) ],
         ret |-> TRUE ]

\* addSegment leaving the partial in place when a final segment is accepted.
addSegmentFinalKeepsPartial(acc, segment) ==
  IF Trim(segment.text) = <<>> THEN [ acc |-> acc, ret |-> FALSE ]
  ELSE IF segment.isFinal
  THEN IF dedupeKey(segment) \in acc.finalKeys THEN [ acc |-> acc, ret |-> FALSE ]
       ELSE [ acc |-> [ acc EXCEPT
                          !.finalSegments = Append(@, Trimmed(segment)),
                          !.finalKeys = @ \cup {dedupeKey(segment)} ],
              ret |-> TRUE ]
  ELSE [ acc |-> [ acc EXCEPT !.partialSegment = <<Trimmed(segment)>> ],
         ret |-> TRUE ]

\* addSegment(segment): the new closure state and the returned boolean.
addSegment(acc, segment) ==
  IF Trim(segment.text) = <<>> THEN [ acc |-> acc, ret |-> FALSE ]
  ELSE IF segment.isFinal
  THEN IF dedupeKey(segment) \in acc.finalKeys THEN [ acc |-> acc, ret |-> FALSE ]
       ELSE [ acc |-> [ finalSegments |-> Append(acc.finalSegments, Trimmed(segment)),
                        finalKeys |-> acc.finalKeys \cup {dedupeKey(segment)},
                        partialSegment |-> <<>> ],
              ret |-> TRUE ]
  ELSE [ acc |-> [ acc EXCEPT !.partialSegment = <<Trimmed(segment)>> ],
         ret |-> TRUE ]

\* Array.prototype.join(' ') of the segments' texts.
RECURSIVE JoinTexts(_)
JoinTexts(segs) ==
  IF segs = <<>> THEN <<>>
  ELSE IF Len(segs) = 1 THEN segs[1].text
  ELSE segs[1].text \o <<" ">> \o JoinTexts(Tail(segs))

getFinalText == Trim(JoinTexts(finalSegments))

getPartialText == IF partialSegment # <<>> THEN partialSegment[1].text ELSE <<>>

\* getDisplayText() returning the final text alone whenever there is one.
getDisplayTextDropsPartial ==
  IF getFinalText = <<>> THEN getPartialText
  ELSE getFinalText

getDisplayText ==
  IF getFinalText = <<>> THEN getPartialText
  ELSE IF getPartialText = <<>> THEN getFinalText
  ELSE Trim(getFinalText \o <<" ">> \o getPartialText)

\* finalSegments.slice()
getSegments == finalSegments

\* What a caller does to the array getSegments() returned.
ArrayEdits == {"pop", "reverse", "clear"}

\* Array.prototype.pop, reverse and `length = 0`.
EditArray(array, edit) ==
  CASE edit = "pop" -> SubSeq(array, 1, Len(array) - 1)
    [] edit = "reverse" -> [ i \in 1..Len(array) |-> array[Len(array) + 1 - i] ]
    [] OTHER -> <<>>

\* getSegments handing out the accumulator's own array.
editReturnedOwnArray(acc, edit) ==
  [ acc EXCEPT !.finalSegments = EditArray(@, edit) ]

\* The closure state after the caller edited the array getSegments() returned:
\* slice() made a new array, the accumulator's own is not the one edited.
editReturned(acc, edit) == acc

----------------------------------------------------------------------------
(* ServerTranscriptionProvider: the upload queue *)

DEFAULT_MAX_UPLOAD_RETRIES == 3

\* The sequence numbers of the chunks.
Chunks == 0..(MaxChunks - 1)

\* The provider's fields after the constructor.  recorder is the MediaRecorder
\* object's state, "none" before it exists and "stopping" between
\* recorder.stop() and its stop event.  loops holds the _drainQueue() calls
\* that are past the test of uploading, each inside _uploadChunk(item) at
\* attempt, awaiting fetch ("fetch"), response.json() ("json") or sleep
\* ("sleep"); fromStop tells that stop() awaits the call.  History, per chunk:
\* fetchLog lists the sequence numbers in the order of the fetch calls, waits
\* the arguments of sleep, emitted counts the responses whose segments were
\* passed to onSegment, onSegmentCalls the calls of onSegment and errors the
\* 'server-upload-failed' errors.  History of the run: chunks lists the chunks
\* built by ondataavailable, with their sequence number and time range.
NewUploader ==
  [ stream |-> FALSE, mediaRecorder |-> FALSE, recorder |-> "none",
    active |-> FALSE, uploading |-> FALSE, queue |-> <<>>, sequence |-> 0,
    lastChunkEndMs |-> 0,
    loops |-> <<>>,
    chunks |-> <<>>,
    fetchLog |-> <<>>,
    waits |-> [ n \in Chunks |-> <<>> ],
    emitted |-> [ n \in Chunks |-> 0 ],
    onSegmentCalls |-> [ n \in Chunks |-> 0 ],
    errors |-> [ n \in Chunks |-> 0 ] ]

RemoveAt(seq, i) == SubSeq(seq, 1, i - 1) \o SubSeq(seq, i + 1, Len(seq))

\* stop() after `await this._drainQueue()`.
stopAfterDrain(u) == [ u EXCEPT !.stream = FALSE, !.active = FALSE ]

\* _uploadChunk(item): the call of fetch that begins an attempt, in the
\* _drainQueue() call i.
callFetch(u, i, item, attempt) ==
  [ u EXCEPT !.loops[i] = [ @ EXCEPT !.item = item, !.attempt = attempt,
                                     !.pc = "fetch" ],
             !.fetchLog = Append(@, item) ]

\* _drainQueue(): the while loop from its test on, in the call i, up to the
\* next await or the return.
drainLoop(u, i) ==
  IF u.queue # <<>>
  THEN callFetch([ u EXCEPT !.queue = Tail(@) ], i, Head(u.queue), 0)
  ELSE LET u1 == [ u EXCEPT !.uploading = FALSE, !.loops = RemoveAt(@, i) ]
       IN  IF u.loops[i].fromStop THEN stopAfterDrain(u1) ELSE u1

\* _drainQueue() entering the loop whether or not an upload is under way.
_drainQueueUnguarded(u, fromStop) ==
  drainLoop([ u EXCEPT !.uploading = TRUE,
                       !.loops = Append(@, [ item |-> 0, attempt |-> 0,
                                             pc |-> "loop", fromStop |-> fromStop ]) ],
            Len(u.loops) + 1)

\* _drainQueue(), called by ondataavailable or awaited by stop().
_drainQueue(u, fromStop) ==
  IF u.uploading THEN (IF fromStop THEN stopAfterDrain(u) ELSE u)
  ELSE drainLoop([ u EXCEPT !.uploading = TRUE,
                            !.loops = Append(@, [ item |-> 0, attempt |-> 0,
                                                  pc |-> "loop", fromStop |-> fromStop ]) ],
                 Len(u.loops) + 1)

\* _uploadChunk's catch block giving up one attempt later.
uploadFailsRetriesOnceMore(u, i) ==
  LET item == u.loops[i].item
      attempt == u.loops[i].attempt
  IN  IF attempt = DEFAULT_MAX_UPLOAD_RETRIES + 1
      THEN drainLoop([ u EXCEPT !.errors[item] = @ + 1 ], i)
      ELSE [ u EXCEPT !.loops[i].pc = "sleep",
                      !.waits[item] = Append(@, (attempt + 1) * 400) ]

\* _uploadChunk's catch block ending the _drainQueue() call with the chunk.
uploadFailsEndsDrain(u, i) ==
  LET item == u.loops[i].item
      attempt == u.loops[i].attempt
  IN  IF attempt = DEFAULT_MAX_UPLOAD_RETRIES
      THEN [ u EXCEPT !.errors[item] = @ + 1, !.uploading = FALSE,
                      !.loops = RemoveAt(@, i) ]
      ELSE [ u EXCEPT !.loops[i].pc = "sleep",
                      !.waits[item] = Append(@, (attempt + 1) * 400) ]

\* _uploadChunk's catch block: the last attempt reports the error and returns
\* false to _drainQueue(), any other sleeps (attempt + 1) * 400 ms.
uploadFails(u, i) ==
  LET item == u.loops[i].item
      attempt == u.loops[i].attempt
  IN  IF attempt = DEFAULT_MAX_UPLOAD_RETRIES
      THEN drainLoop([ u EXCEPT !.errors[item] = @ + 1 ], i)
      ELSE [ u EXCEPT !.loops[i].pc = "sleep",
                      !.waits[item] = Append(@, (attempt + 1) * 400) ]

\* _uploadChunk passing the segments on and then going to the catch block.
uploadSucceedsThenThrows(u, i, segments) ==
  LET item == u.loops[i].item
  IN  uploadFails([ u EXCEPT !.emitted[item] = @ + 1,
                             !.onSegmentCalls[item] = @ + segments ], i)

\* _uploadChunk after `await response.json()`: the normalized segments are
\* passed to onSegment and true is returned to _drainQueue().
uploadSucceeds(u, i, segments) ==
  LET item == u.loops[i].item
  IN  drainLoop([ u EXCEPT !.emitted[item] = @ + 1,
                           !.onSegmentCalls[item] = @ + segments ], i)

\* _uploadChunk after `await sleep(...)`: the next turn of the for loop.
sleepEnds(u, i) == callFetch(u, i, u.loops[i].item, u.loops[i].attempt + 1)

\* ondataavailable taking a sequence number for an event without data.
ondataavailableCountsEmpty(u, empty, nowElapsed) ==
  IF empty THEN [ u EXCEPT !.sequence = @ + 1 ]
  ELSE _drainQueue([ u EXCEPT !.queue = Append(@, u.sequence),
                              !.sequence = @ + 1,
                              !.lastChunkEndMs = nowElapsed,
                              !.chunks = Append(@, [ sequence |-> u.sequence,
                                                     startMs |-> u.lastChunkEndMs,
                                                     endMs |-> nowElapsed ]) ],
                   FALSE)

\* mediaRecorder.ondataavailable: empty tells that the event carries no data,
\* nowElapsed is Date.now() - this.startedAtMs.
ondataavailable(u, empty, nowElapsed) ==
  IF empty THEN u
  ELSE _drainQueue([ u EXCEPT !.queue = Append(@, u.sequence),
                              !.sequence = @ + 1,
                              !.lastChunkEndMs = nowElapsed,
                              !.chunks = Append(@, [ sequence |-> u.sequence,
                                                     startMs |-> u.lastChunkEndMs,
                                                     endMs |-> nowElapsed ]) ],
                   FALSE)

\* ServerTranscriptionProvider.start({ stream }): ok tells whether MediaRecorder
\* is defined.
uploaderStart(u, ok) ==
  IF ok
  THEN [ u EXCEPT !.stream = TRUE, !.mediaRecorder = TRUE, !.recorder = "recording",
                  !.active = TRUE, !.sequence = 0, !.queue = <<>>,
                  !.lastChunkEndMs = 0, !.chunks = <<>> ]
  ELSE u

\* ServerTranscriptionProvider.stop() up to its return or its await.
uploaderStop(u) ==
  IF ~u.mediaRecorder THEN [ u EXCEPT !.stream = FALSE, !.active = FALSE ]
  ELSE _drainQueue([ u EXCEPT !.mediaRecorder = FALSE,
                              !.recorder = IF @ = "inactive" THEN @ ELSE "stopping" ],
                   TRUE)

----------------------------------------------------------------------------
(* Transcript accumulator: the operations *)

NoCall == [ op |-> "none", seg |-> <<>>, ret |-> FALSE, held |-> FALSE ]

\* The server provider as constructed.
UpIdle == up = NewUploader

\* The engine as constructed, in a supported browser.
EngIdle ==
  /\ eng = NewEngine
  /\ ops = 0
  /\ runtimeInfo =
       [ hasSpeechRecognition |-> TRUE, isSecure |-> TRUE, browserName |-> "Chrome" ]

\* The analyzer as constructed.
AnIdle ==
  /\ now = Epoch
  /\ an = NewAnalyzer
  /\ onHesitationLog = <<>>
  /\ onCalibratedLog = <<>>
  /\ startResult = "none"
  /\ stopResult = <<>>
  /\ runStart = 0
  /\ calls = 0

\* createTranscriptAccumulator()
AccIdle ==
  /\ finalSegments = <<>>
  /\ finalKeys = {}
  /\ partialSegment = <<>>
  /\ accLast = NoCall

AccAddSegment(segment) ==
  LET r == addSegment(AccState, segment)
  IN  /\ Len(r.acc.finalSegments) <= MaxFinals
      /\ finalSegments' = r.acc.finalSegments
      /\ finalKeys' = r.acc.finalKeys
      /\ partialSegment' = r.acc.partialSegment
      /\ accLast' = [ op |-> "addSegment", seg |-> <<segment>>, ret |-> r.ret,
                      held |-> partialSegment # <<>> ]

\* reset() that leaves the dedupe keys in place.
AccResetKeepsKeys ==
  /\ finalSegments' = <<>>
  /\ finalKeys' = finalKeys
  /\ partialSegment' = <<>>
  /\ accLast' = [ op |-> "reset",
                  seg |-> IF accLast.op = "addSegment" /\ ~accLast.ret
                          THEN accLast.seg ELSE <<>>,
                  ret |-> FALSE,
                  held |-> partialSegment # <<>> ]

\* reset().  History: seg keeps the segment that the call before it rejected,
\* if that call was an addSegment returning false.
AccReset ==
  /\ finalSegments' = <<>>
  /\ finalKeys' = {}
  /\ partialSegment' = <<>>
  /\ accLast' = [ op |-> "reset",
                  seg |-> IF accLast.op = "addSegment" /\ ~accLast.ret
                          THEN accLast.seg ELSE <<>>,
                  ret |-> FALSE,
                  held |-> partialSegment # <<>> ]

\* A caller edits the array it got from getSegments().
AccEditReturned(edit) ==
  LET acc == editReturned(AccState, edit)
  IN  /\ finalSegments' = acc.finalSegments
      /\ finalKeys' = acc.finalKeys
      /\ partialSegment' = acc.partialSegment
      /\ accLast' = [ op |-> "edit", seg |-> <<>>, ret |-> FALSE,
                      held |-> partialSegment # <<>> ]

AccInit ==
  /\ AccIdle
  /\ AnIdle
  /\ EngIdle
  /\ UpIdle

AccNext ==
  /\ \/ \E segment \in Segments : AccAddSegment(segment)
     \/ AccReset
     \/ \E edit \in ArrayEdits : AccEditReturned(edit)
  /\ UNCHANGED <<anVars, engVars, upVars>>

SpecAccum == AccInit /\ [][AccNext]_vars

----------------------------------------------------------------------------
(* AudioAnalyzer: the operations *)

AnInit ==
  /\ AnIdle
  /\ AccIdle
  /\ EngIdle
  /\ UpIdle

\* The callbacks and the history a call of _analyze() at time t leaves behind.
AnalyzeEffects(a, t, rms) ==
  LET f == FrameFacts(a, t, rms)
  IN  /\ onHesitationLog' =
           IF Processes(a, t) /\ f.hesitation
           THEN Append(onHesitationLog, <<f.silenceDuration, a.hesitationCount + 1>>)
           ELSE onHesitationLog
      /\ onCalibratedLog' =
           IF Processes(a, t) /\ f.calibrated
           THEN Append(onCalibratedLog,
                       <<SumSeq(Append(a.calibrationSamples, rms)),
                         Len(a.calibrationSamples) + 1>>)
           ELSE onCalibratedLog
      /\ runStart' =
           IF ~ Processes(a, t) THEN runStart
           ELSE IF f.isSpeaking THEN 0
           ELSE IF f.wasSpeaking THEN t
           ELSE runStart

\* start() resolves (microphone granted): the fields are reset and _analyze()
\* runs once, in the same turn.
AnStart(rms) ==
  /\ calls < MaxCalls
  /\ startResult # "ok"
  /\ stopResult = <<>>
  /\ an' = Analyze(StartReset(an, now), now, rms)
  /\ AnalyzeEffects(StartReset(an, now), now, rms)
  /\ startResult' = "ok"
  /\ calls' = calls + 1
  /\ UNCHANGED <<now, stopResult>>

\* start() fails (getUserMedia rejects): it returns false and changes nothing.
AnStartFails ==
  /\ startResult # "ok"
  /\ stopResult = <<>>
  /\ startResult' = "failed"
  /\ UNCHANGED <<now, an, onHesitationLog, onCalibratedLog, stopResult, runStart, calls>>

\* The animation-frame callback: _analyze() runs d ms after the previous call.
AnAnalyze(d, rms) ==
  /\ calls < MaxCalls
  /\ an.animationFrame
  /\ now' = now + d
  /\ an' = Analyze(an, now', rms)
  /\ AnalyzeEffects(an, now', rms)
  /\ calls' = calls + 1
  /\ UNCHANGED <<startResult, stopResult>>

\* stop(), d ms after the previous call.
AnStop(d) ==
  /\ calls < MaxCalls
  /\ Len(stopResult) < MaxStops
  /\ now' = now + d
  /\ an' = StopTiming(an, now')
  /\ stopResult' = Append(stopResult, StopReturn(an', now'))
  /\ calls' = calls + 1
  /\ UNCHANGED <<onHesitationLog, onCalibratedLog, startResult, runStart>>

AnNext ==
  /\ \/ \E rms \in RmsValues : AnStart(rms)
     \/ AnStartFails
     \/ \E d \in ClockSteps, rms \in RmsValues : AnAnalyze(d, rms)
     \/ \E d \in ClockSteps : AnStop(d)
  /\ UNCHANGED <<accVars, engVars, upVars>>

SpecAnalyzer == AnInit /\ [][AnNext]_vars

----------------------------------------------------------------------------
(* Hybrid transcription engine: the operations and the events *)

\* createHybridTranscriptionEngine({ runtimeInfo })
EngInit ==
  /\ eng = NewEngine
  /\ ops = 0
  /\ runtimeInfo \in RuntimeInfos
  /\ AnIdle
  /\ AccIdle
  /\ UpIdle

\* The state a synchronous run of code ends in.
Step(t) ==
  /\ ~t.overflow
  /\ eng' = Settle(t)

\* engine.start(options)
EngStart(preferBrowser, allowServerFallback, stream, ok) ==
  /\ ops < MaxOps
  /\ Step(start(eng, runtimeInfo, preferBrowser, allowServerFallback, stream, ok))
  /\ ops' = ops + 1
  /\ UNCHANGED runtimeInfo

\* engine.stop()
EngStop ==
  /\ ops < MaxOps
  /\ Step(stop(eng))
  /\ ops' = ops + 1
  /\ UNCHANGED runtimeInfo

\* engine.switchToServer(reason, { stream })
EngSwitchToServer(stream) ==
  /\ ops < MaxOps
  /\ Step(switchToServer(eng, stream))
  /\ ops' = ops + 1
  /\ UNCHANGED runtimeInfo

\* engine.resetTranscript()
EngResetTranscript ==
  /\ ops < MaxOps
  /\ Step(resetTranscript(eng))
  /\ ops' = ops + 1
  /\ UNCHANGED runtimeInfo

\* The next microtask runs.
RunMicrotask(ok) ==
  /\ eng.micro # <<>>
  /\ Step(Resume([ eng EXCEPT !.micro = Tail(@) ], Head(eng.micro), ok))
  /\ UNCHANGED <<ops, runtimeInfo>>

\* A task runs only once the microtask queue is empty.
RecognitionOnStart(r) ==
  /\ eng.micro = <<>>
  /\ eng.recs[r].st = "starting"
  /\ Step(recognitionOnStart(eng, r))
  /\ UNCHANGED <<ops, runtimeInfo>>

RecognitionOnError(r, code) ==
  /\ eng.micro = <<>>
  /\ eng.recs[r].st \in {"starting", "running"}
  /\ Step(recognitionOnError(eng, code))
  /\ UNCHANGED <<ops, runtimeInfo>>

RecognitionOnEnd(r) ==
  /\ eng.micro = <<>>
  /\ eng.recs[r].st \in {"starting", "running"}
  /\ Step(recognitionOnEnd(eng, r))
  /\ UNCHANGED <<ops, runtimeInfo>>

RestartTimerFires(ok) ==
  /\ eng.micro = <<>>
  /\ eng.timerPending
  /\ Step(restartTimerCallback(eng, ok))
  /\ UNCHANGED <<ops, runtimeInfo>>

GetUserMediaSettles(p, outcome) ==
  /\ eng.micro = <<>>
  /\ eng.provs[p].gum
  /\ Step(getUserMediaSettles(eng, p, outcome))
  /\ UNCHANGED <<ops, runtimeInfo>>

RecorderOnStop(p) ==
  /\ eng.micro = <<>>
  /\ eng.provs[p].recorder \in {"recording", "stopping"}
  /\ Step(recorderOnStop(eng, p))
  /\ UNCHANGED <<ops, runtimeInfo>>

RecorderOnError(p) ==
  /\ eng.micro = <<>>
  /\ eng.provs[p].recorder = "recording"
  /\ Step(recorderOnError(eng))
  /\ UNCHANGED <<ops, runtimeInfo>>

EngNext ==
  /\ \/ \E preferBrowser, allowServerFallback, stream, ok \in BOOLEAN :
          EngStart(preferBrowser, allowServerFallback, stream, ok)
     \/ EngStop
     \/ \E stream \in BOOLEAN : EngSwitchToServer(stream)
     \/ EngResetTranscript
     \/ \E ok \in BOOLEAN : RunMicrotask(ok)
     \/ \E r \in 1..MaxRecognitions : RecognitionOnStart(r)
     \/ \E r \in 1..MaxRecognitions, code \in {"denied", "other"} :
          RecognitionOnError(r, code)
     \/ \E r \in 1..MaxRecognitions : RecognitionOnEnd(r)
     \/ \E ok \in BOOLEAN : RestartTimerFires(ok)
     \/ \E p \in 1..MaxProviders, outcome \in {"ok", "rejected", "throws"} :
          GetUserMediaSettles(p, outcome)
     \/ \E p \in 1..MaxProviders : RecorderOnStop(p)
     \/ \E p \in 1..MaxProviders : RecorderOnError(p)
  /\ UNCHANGED <<anVars, accVars, upVars>>

SpecEngine == EngInit /\ [][EngNext]_vars

----------------------------------------------------------------------------
(* ServerTranscriptionProvider: the operations and the events *)

\* new ServerTranscriptionProvider(callbacks, options)
UpInit ==
  /\ UpIdle
  /\ AnIdle
  /\ AccIdle
  /\ EngIdle

\* provider.start({ stream })
UpStart(ok) ==
  /\ up.recorder = "none"
  /\ up' = uploaderStart(up, ok)

\* The MediaRecorder delivers a chunk, at its timeslice or after recorder.stop().
UpDataAvailable(empty, nowElapsed) ==
  /\ up.recorder \in {"recording", "stopping"}
  /\ up.sequence < MaxChunks
  /\ up' = ondataavailable(up, empty, nowElapsed)

\* The MediaRecorder's stop event: mediaRecorder.onstop.
UpRecorderOnStop ==
  /\ up.recorder \in {"recording", "stopping"}
  /\ up' = [ up EXCEPT !.recorder = "inactive", !.active = FALSE ]

\* The promise of fetch settles: ok tells that it resolved with response.ok.
UpFetchSettles(i, ok) ==
  /\ i \in DOMAIN up.loops
  /\ up.loops[i].pc = "fetch"
  /\ up' = IF ok THEN [ up EXCEPT !.loops[i].pc = "json" ] ELSE uploadFails(up, i)

\* The promise of response.json() settles: ok tells that it resolved, segments
\* is the number of segments in the payload.
UpJsonSettles(i, ok, segments) ==
  /\ i \in DOMAIN up.loops
  /\ up.loops[i].pc = "json"
  /\ up' = IF ok THEN uploadSucceeds(up, i, segments) ELSE uploadFails(up, i)

\* The timeout of sleep fires.
UpSleepEnds(i) ==
  /\ i \in DOMAIN up.loops
  /\ up.loops[i].pc = "sleep"
  /\ up' = sleepEnds(up, i)

\* provider.stop()
UpStop ==
  /\ up' = uploaderStop(up)

UpNext ==
  /\ \/ \E ok \in BOOLEAN : UpStart(ok)
     \/ \E empty \in BOOLEAN, nowElapsed \in ElapsedValues :
          UpDataAvailable(empty, nowElapsed)
     \/ UpRecorderOnStop
     \/ \E i \in 1..MaxChunks, ok \in BOOLEAN : UpFetchSettles(i, ok)
     \/ \E i \in 1..MaxChunks, ok \in BOOLEAN, segments \in 0..MaxSegments :
          UpJsonSettles(i, ok, segments)
     \/ \E i \in 1..MaxChunks : UpSleepEnds(i)
     \/ UpStop
  /\ UNCHANGED <<anVars, accVars, engVars>>

SpecUpload == UpInit /\ [][UpNext]_vars

\* Every request is answered or fails, every response body arrives or fails,
\* and every timeout fires.
SpecUploadFair ==
  /\ UpInit
  /\ [][UpNext]_vars
  /\ WF_upVars(\E i \in 1..MaxChunks, ok \in BOOLEAN : UpFetchSettles(i, ok))
  /\ WF_upVars(\E i \in 1..MaxChunks, ok \in BOOLEAN, segments \in 0..MaxSegments :
                 UpJsonSettles(i, ok, segments))
  /\ WF_upVars(\E i \in 1..MaxChunks : UpSleepEnds(i))

----------------------------------------------------------------------------
(* AudioAnalyzer: the claims *)

\* A step in which _analyze() processed a frame (was not throttled).
FrameStep == an'.frameCount = an.frameCount + 1

\* The smoothed volume of the frame just processed is sum / n.
SmoothedSum == SumSeq(an.volumeSamples)
SmoothedLen == Len(an.volumeSamples)

\* C2: after start() and after every _analyze() call, throttled or not and
\* whatever the intervals, totalSpeakingTime + totalSilenceTime equals
\* lastFrameTime - sessionStartTime; after the first stop() the sum equals the
\* totalTime that stop() returned.
C2_SumInvariant ==
  startResult = "ok" =>
    /\ stopResult = <<>> =>
         an.totalSpeakingTime + an.totalSilenceTime = an.lastFrameTime - an.sessionStartTime
    /\ Len(stopResult) = 1 =>
         an.totalSpeakingTime + an.totalSilenceTime = stopResult[1].totalTime

\* A stopped session with speech and silence, a throttled call, and time between
\* the last frame and stop().
C2_Witness ==
  /\ startResult = "ok"
  /\ Len(stopResult) = 1
  /\ calls - an.frameCount - 1 >= 1
  /\ an.frameCount >= 3
  /\ an.totalSpeakingTime > 0
  /\ an.totalSilenceTime > 0
  /\ stopResult[1].totalTime > an.lastFrameTime - an.sessionStartTime

\* C3 as stated: speaking stays speaking on every frame whose smoothed volume is
\* not below T_off, silent stays silent on every frame whose smoothed volume does
\* not exceed T_on.
C3_AsStated ==
  [][ FrameStep =>
        /\ (an.isSpeaking
            /\ SmoothedSum' >= speechOffThreshold * SmoothedLen') => an'.isSpeaking
        /\ (~ an.isSpeaking
            /\ SmoothedSum' <= speechOnThreshold * SmoothedLen') => ~ an'.isSpeaking
    ]_vars

\* C3 amended: speaking stays speaking on every frame whose smoothed volume is
\* above T_off, silent stays silent on every frame whose smoothed volume does not
\* exceed T_on; so frames whose smoothed volumes lie above T_off and at most at
\* T_on never change isSpeaking.
C3_Hysteresis ==
  [][ FrameStep =>
        /\ (an.isSpeaking
            /\ SmoothedSum' > speechOffThreshold * SmoothedLen') => an'.isSpeaking
        /\ (~ an.isSpeaking
            /\ SmoothedSum' <= speechOnThreshold * SmoothedLen') => ~ an'.isSpeaking
        /\ (/\ SmoothedSum' > speechOffThreshold * SmoothedLen'
            /\ SmoothedSum' <= speechOnThreshold * SmoothedLen')
           => an'.isSpeaking = an.isSpeaking
    ]_vars

\* Still speaking after a frame whose smoothed volume lies between the thresholds.
C3_Witness ==
  /\ an.isSpeaking
  /\ an.frameCount >= 2
  /\ SmoothedSum > speechOffThreshold * SmoothedLen
  /\ SmoothedSum <= speechOnThreshold * SmoothedLen

\* A frame on which speech resumes after a silence the analyzer has timed.
ResumeStep ==
  FrameStep /\ ~ an.isSpeaking /\ an'.isSpeaking /\ an.currentSilenceStart # 0

\* The duration the analyzer measures for that silence.
MeasuredSilence == now' - an.currentSilenceStart

HesitationUnchanged ==
  /\ an'.hesitationCount = an.hesitationCount
  /\ an'.hesitationSilenceTime = an.hesitationSilenceTime
  /\ an'.hesitationTimings = an.hesitationTimings
  /\ onHesitationLog' = onHesitationLog

HesitationAdded(silenceStart, duration) ==
  /\ an'.hesitationCount = an.hesitationCount + 1
  /\ an'.hesitationSilenceTime = an.hesitationSilenceTime + duration
  /\ an'.hesitationTimings =
       Append(an.hesitationTimings,
              [ startOffset |-> silenceStart - an.sessionStartTime,
                duration |-> duration ])
  /\ onHesitationLog' = Append(onHesitationLog, <<duration, an.hesitationCount + 1>>)

RunResumeStep == FrameStep /\ ~ an.isSpeaking /\ an'.isSpeaking /\ runStart # 0

\* How long that run lasted, from its first silent sample to this one.
RunLength == now' - runStart

\* The run's first silent sample was processed with the calibration window over.
RunAfterCalibration == runStart - an.calibrationStartTime >= CALIBRATION_DURATION

\* C5 as stated: every silence run that follows speech, wherever in the session
\* it begins, and lasts at least hesitationMinDuration adds exactly one
\* hesitation, on the frame at which speech resumes and on no other step.
C5_AsStated ==
  [][ /\ (RunResumeStep /\ RunLength >= hesitationMinDuration)
         => HesitationAdded(runStart, RunLength)
      /\ ~ HesitationUnchanged => RunResumeStep
    ]_vars

\* C5 amended: every silence run that follows speech, begins on a frame
\* processed after the calibration window has ended and lasts at least
\* hesitationMinDuration adds exactly one hesitation, on the frame at which
\* speech resumes; a run that begins while the analyzer is still calibrating
\* adds none; nothing is added or reported on any other step.
C5_HesitationAtResume ==
  [][ /\ (RunResumeStep /\ RunAfterCalibration /\ RunLength >= hesitationMinDuration)
         => HesitationAdded(runStart, RunLength)
      /\ (RunResumeStep /\ ~ RunAfterCalibration) => HesitationUnchanged
      /\ ~ HesitationUnchanged => RunResumeStep
    ]_vars

\* Speech has resumed after a run longer than hesitationMinDuration and the one
\* hesitation has been reported.
C5_Witness ==
  /\ an.isSpeaking
  /\ an.hesitationCount = 1
  /\ Len(onHesitationLog) = 1
  /\ onHesitationLog[1][1] > hesitationMinDuration
  /\ an.hesitationTimings[1].duration = onHesitationLog[1][1]

\* C6: while no frame has been classified as speaking, hesitationCount is 0, no
\* hesitation has been recorded or reported, totalSpeakingTime is 0 and the
\* silence is the whole elapsed time.
C6_NeverSpoke ==
  ~ an.hasSpokeAtLeastOnce =>
    /\ an.hesitationCount = 0
    /\ an.hesitationTimings = <<>>
    /\ an.hesitationSilenceTime = 0
    /\ onHesitationLog = <<>>
    /\ an.totalSpeakingTime = 0
    /\ (startResult = "ok" /\ stopResult = <<>>) =>
         an.totalSilenceTime = an.lastFrameTime - an.sessionStartTime
    /\ (startResult = "ok" /\ Len(stopResult) = 1) =>
         an.totalSilenceTime = stopResult[1].totalTime

\* Ten seconds of frames and stop, none classified as speaking.
C6_Witness ==
  /\ startResult = "ok"
  /\ ~ an.hasSpokeAtLeastOnce
  /\ an.frameCount >= 6
  /\ Len(stopResult) = 1
  /\ stopResult[1].totalTime >= 10000
  /\ an.totalSilenceTime = stopResult[1].totalTime

\* A step that is a call of stop().
StopStep == Len(stopResult') = Len(stopResult) + 1

\* C7: stop() records no hesitation: hesitationCount, hesitationSilenceTime and
\* hesitationTimings are after stop() what they were before it, onHesitation is
\* not called, and the returned count is the count before the call.
C7_StopAddsNoHesitation ==
  [][ StopStep =>
        /\ HesitationUnchanged
        /\ stopResult'[Len(stopResult')].hesitationCount = an.hesitationCount
        /\ stopResult'[Len(stopResult')].hesitationTimings = an.hesitationTimings
    ]_vars

\* stop() was called with a silence of at least hesitationMinDuration in progress.
C7_Witness ==
  /\ Len(stopResult) = 1
  /\ ~ an.isSpeaking
  /\ an.currentSilenceStart # 0
  /\ an.sessionStartTime + stopResult[1].totalTime - an.currentSilenceStart
       >= hesitationMinDuration
  /\ an.hesitationCount = 0

----------------------------------------------------------------------------
(* Transcript accumulator: dedup and the single partial *)

\* The step is a call of addSegment.
AddStep == accLast'.op = "addSegment"

\* The segment passed by the call of this step.
AddedSegment == accLast'.seg[1]

\* The key as the specification words it: source, rounded start, rounded end,
\* and the text trimmed, whitespace-collapsed and lower-cased.
C8_Key(seg) ==
  [ source |-> seg.source,
    start  |-> IF seg.startMs = <<>> THEN "na" ELSE (seg.startMs[1] + 1) \div 2,
    end    |-> IF seg.endMs = <<>> THEN "na" ELSE (seg.endMs[1] + 1) \div 2,
    text   |-> ToLowerCase(CollapseSpaces(Trim(seg.text))) ]

\* A final segment with the key of seg was accepted by an earlier call.
AcceptedBefore(seg) ==
  \E i \in 1..Len(finalSegments) : C8_Key(finalSegments[i]) = C8_Key(seg)

FinalsUnchanged ==
  /\ getFinalText' = getFinalText
  /\ getSegments' = getSegments

\* C8: a call of addSegment with a final segment whose key is the key of a final
\* segment accepted by an earlier call, with any calls of addSegment in between,
\* returns false and leaves getFinalText() and getSegments() unchanged; so does a
\* call with a blank text; a call with a new key and a text is accepted, returns
\* true and appends the trimmed segment.
C8_DedupIdempotence ==
  [][ (AddStep /\ AddedSegment.isFinal) =>
        IF Trim(AddedSegment.text) = <<>> \/ AcceptedBefore(AddedSegment)
        THEN accLast'.ret = FALSE /\ FinalsUnchanged
        ELSE /\ accLast'.ret = TRUE
             /\ getSegments' =
                  Append(getSegments,
                         [ AddedSegment EXCEPT !.text = Trim(AddedSegment.text) ])
    ]_vars

\* A final segment was refused as a repeat of the first accepted one, from which
\* it differs in its text as given, after another segment was accepted in between.
C8_Witness ==
  /\ accLast.op = "addSegment"
  /\ accLast.ret = FALSE
  /\ Len(finalSegments) = 2
  /\ LET seg == accLast.seg[1]
     IN  /\ seg.isFinal
         /\ Trim(seg.text) # <<>>
         /\ C8_Key(finalSegments[1]) = C8_Key(seg)
         /\ finalSegments[1].text # Trim(seg.text)
         /\ finalSegments[1].startMs # seg.startMs
         /\ C8_Key(finalSegments[2]) # C8_Key(seg)

\* C9: the accumulator holds at most one partial segment in every state, and
\* after addSegment of a non-final segment with a non-blank text the partial held
\* is that segment with its text trimmed, whatever was held before.
C9_SinglePartial ==
  /\ [](Len(partialSegment) <= 1)
  /\ [][ (AddStep /\ ~AddedSegment.isFinal /\ Trim(AddedSegment.text) # <<>>) =>
           /\ partialSegment' =
                << [ AddedSegment EXCEPT !.text = Trim(AddedSegment.text) ] >>
           /\ getPartialText' = Trim(AddedSegment.text)
           /\ accLast'.ret = TRUE
      ]_vars

\* A padded partial replaced the partial held before it.
C9_Witness ==
  /\ accLast.op = "addSegment"
  /\ accLast.held
  /\ ~accLast.seg[1].isFinal
  /\ accLast.seg[1].text # Trim(accLast.seg[1].text)
  /\ partialSegment = << [ accLast.seg[1] EXCEPT !.text = Trim(@) ] >>
  /\ finalSegments # <<>>

----------------------------------------------------------------------------
(* Hybrid transcription engine: provider exclusivity and the switch *)

BrowserInstances == { i \in 1..MaxProviders : eng.provs[i].kind = "browser" }
ServerInstances == { i \in 1..MaxProviders : eng.provs[i].kind = "server" }

\* C1: in no reachable state do a BrowserTranscriptionProvider and a
\* ServerTranscriptionProvider both report isActive() == true.
C1_ProviderExclusivity ==
  ~ \E b \in BrowserInstances, v \in ServerInstances :
       eng.provs[b].active /\ eng.provs[v].active

\* The microtask about to run is a switchToServer that found a browser provider
\* in place, resuming after `await closeProvider()`: it calls startServer.
SwitchReachesStartServer ==
  /\ eng.micro # <<>>
  /\ Head(eng.micro).kind = "switch"
  /\ Head(eng.micro).pc = "afterClose"
  /\ Head(eng.micro).hops = 0
  /\ Head(eng.micro).out # 0

\* The step runs that microtask: the server provider's start() is called.
SwitchStartsServer ==
  /\ SwitchReachesStartServer
  /\ Len(eng'.micro) = Len(eng.micro) - 1
  /\ eng'.providerType = "server"

\* C10: when a switchToServer that found the browser provider in place calls the
\* server provider's start(), the stop() of the provider it found has been called
\* and has resolved, and the restart timer has been cleared: the variable is
\* null and no restart timeout is pending.
C10_SwitchDiscipline ==
  [][ SwitchStartsServer =>
        /\ eng.provs[Head(eng.micro).out].kind = "browser"
        /\ eng.provs[Head(eng.micro).out].stop = "resolved"
        /\ ~eng.browserRestartTimer
        /\ ~eng.timerPending
    ]_vars

\* A switchToServer called while a restart timeout was pending is about to call
\* the server provider's start(): the provider it found is stopped, the timer
\* cleared.
C10_Witness ==
  /\ SwitchReachesStartServer
  /\ Head(eng.micro).hadTimer
  /\ eng.provs[Head(eng.micro).out].stop = "resolved"
  /\ ~eng.browserRestartTimer
  /\ FreeProviderSlots(eng) # {}

----------------------------------------------------------------------------
(* Hybrid transcription engine: restart policy *)

SwitchJobs(s) == { k \in 1..Len(s.micro) : s.micro[k].kind = "switch" }

LiveInstances(s) == { i \in 1..MaxProviders : s.provs[i].kind # "free" }

\* The browser provider's recognition ends while the engine is in the browser
\* state and stop() has not been called.
UnexpectedEnd(r) ==
  /\ eng.providerType = "browser"
  /\ ~eng.stoppedManually
  /\ RecognitionOnEnd(r)

\* onEnd below the budget: the count grows by one and a restart timeout is set.
RestartScheduled ==
  /\ eng'.browserRestartCount = eng.browserRestartCount + 1
  /\ eng'.browserRestartTimer /\ eng'.timerPending
  /\ eng'.providerType = "browser"
  /\ eng'.micro = <<>>

\* onEnd with the budget used up: a switchToServer is under way, no restart.
SwitchBegun ==
  /\ eng'.browserRestartCount = eng.browserRestartCount
  /\ ~eng'.timerPending
  /\ Cardinality(SwitchJobs(eng')) = 1

\* The restart timeout fires while the engine is in the browser state and stop()
\* has not been called.
RestartDue(ok) ==
  /\ eng.providerType = "browser"
  /\ ~eng.stoppedManually
  /\ RestartTimerFires(ok)

\* The provider in place is started again: no instance is created, and when the
\* SpeechRecognition can be constructed one of that provider is starting.
SameProviderStarted(ok) ==
  /\ eng'.restarts > eng.restarts \/ eng.restarts > maxBrowserRestarts
  /\ eng'.providerType = "browser"
  /\ Cardinality(LiveInstances(eng')) <= Cardinality(LiveInstances(eng))
  /\ ok => /\ eng'.provs[eng'.provider].recognition > 0
           /\ eng'.recs[eng'.provs[eng'.provider].recognition] =
                [ prov |-> eng'.provider, st |-> "starting" ]

\* C11 as stated: when the browser provider ends unexpectedly below the budget it
\* is restarted, otherwise the engine switches; hence at most maxBrowserRestarts
\* restarts happen before the switch.
C11_AsStated == eng.restarts <= maxBrowserRestarts

\* C11: when the browser provider ends while the engine is in the browser state
\* and stop() has not been called, then below maxBrowserRestarts the count is
\* incremented and a timeout set whose callback starts the provider in place
\* again, otherwise a switch to the server provider begins; browserRestartCount
\* never exceeds maxBrowserRestarts, and as long as resetTranscript() has not
\* been called at most maxBrowserRestarts restarts happen.
C11_RestartPolicy ==
  /\ [](/\ eng.browserRestartCount <= maxBrowserRestarts
        /\ ~eng.wasReset => eng.restarts <= maxBrowserRestarts)
  /\ [][ \A r \in 1..MaxRecognitions :
            UnexpectedEnd(r) =>
              IF eng.browserRestartCount < maxBrowserRestarts
              THEN RestartScheduled ELSE SwitchBegun ]_vars
  /\ [][ \A ok \in BOOLEAN : RestartDue(ok) => SameProviderStarted(ok) ]_vars

\* The budget is used up by maxBrowserRestarts restarts and the next end of the
\* browser provider has begun the switch.
C11_Witness ==
  /\ eng.restarts = maxBrowserRestarts
  /\ eng.browserRestartCount = maxBrowserRestarts
  /\ ~eng.wasReset
  /\ eng.providerType = "browser"
  /\ SwitchJobs(eng) # {}

----------------------------------------------------------------------------
(* Error escalation *)

\* A recognition reports an error other than permission-denied while the engine
\* is in the browser state.
RecoverableError(r) ==
  /\ eng.providerType = "browser"
  /\ RecognitionOnError(r, "other")

\* A step of the engine counts an error: it counts one, and one switch to the
\* server provider begins in that step when the count has reached
\* maxBrowserErrors, none when it has not.
ErrorCounted ==
  /\ eng'.browserErrorCount = eng.browserErrorCount + 1
  /\ Cardinality(SwitchJobs(eng')) =
       Cardinality(SwitchJobs(eng)) +
         (IF eng'.browserErrorCount >= maxBrowserErrors THEN 1 ELSE 0)

\* C12: each recoverable error the browser provider reports while the engine is
\* in the browser state increments browserErrorCount by one, and the step that
\* brings the count to maxBrowserErrors begins exactly one switch to the server
\* provider.
C12_ErrorEscalation ==
  /\ [][ \A r \in 1..MaxRecognitions :
            RecoverableError(r) =>
              eng'.browserErrorCount = eng.browserErrorCount + 1 ]_vars
  /\ [][ eng'.browserErrorCount > eng.browserErrorCount => ErrorCounted ]_vars

\* Three consecutive recoverable errors after one start(): the count is at
\* maxBrowserErrors and one switch is under way.
C12_Witness ==
  /\ ops = 1
  /\ eng.providerType = "browser"
  /\ eng.browserErrorCount = maxBrowserErrors
  /\ Len(eng.micro) = 1
  /\ Cardinality(SwitchJobs(eng)) = 1

\* A recognition reports 'not-allowed' or 'service-not-allowed' while the engine
\* is in the browser state.
PermissionDenied(r) ==
  /\ eng.providerType = "browser"
  /\ RecognitionOnError(r, "denied")

\* C13: a permission-denied error the browser provider reports while the engine
\* is in the browser state begins a switch to the server provider in the same
\* step, whatever browserErrorCount is, and leaves browserErrorCount as it was.
C13_PermissionDenied ==
  [][ \A r \in 1..MaxRecognitions :
        PermissionDenied(r) =>
          /\ eng'.browserErrorCount = eng.browserErrorCount
          /\ Cardinality(SwitchJobs(eng')) = 1
          /\ ~eng'.timerPending ]_vars

\* After one start() a switch is under way with neither count used up: a
\* permission-denied error has begun it.
C13_Witness ==
  /\ ops = 1
  /\ eng.providerType = "browser"
  /\ eng.browserErrorCount = 0
  /\ eng.browserRestartCount < maxBrowserRestarts
  /\ Cardinality(SwitchJobs(eng)) = 1

----------------------------------------------------------------------------
(* stop() *)

\* Nothing asynchronous is pending: no suspended function, no restart timeout,
\* no getUserMedia.
Quiescent ==
  /\ eng.micro = <<>>
  /\ ~eng.timerPending
  /\ \A i \in 1..MaxProviders : ~eng.provs[i].gum

\* C14: once stop() has been called, no start() has followed it, nothing
\* asynchronous is pending and the engine is idle, no provider is referred to,
\* no provider instance is active and none holds a capture stream.
C14_StopReleases ==
  (eng.stoppedManually /\ Quiescent /\ eng.providerType = "idle") =>
    /\ eng.provider = 0
    /\ \A i \in 1..MaxProviders :
         ~eng.provs[i].active /\ ~eng.provs[i].stream

----------------------------------------------------------------------------
(* Provider-state transitions *)

\* The engine does not go from the server state to the browser state in one
\* step: it has to become idle by stop() first.
ServerStaysServer ==
  eng.providerType = "server" => eng'.providerType # "browser"

\* A step that is no call of the engine's interface, taken after stop() and
\* before the next start(), neither schedules nor performs a restart and begins
\* no switch to the server provider.
NothingAutomaticAfterStop ==
  (eng.stoppedManually /\ ops' = ops) =>
    /\ eng'.restarts = eng.restarts
    /\ eng'.timerPending => eng.timerPending
    /\ Cardinality(SwitchJobs(eng')) <= Cardinality(SwitchJobs(eng))

\* C15: once providerType is 'server' it becomes 'browser' again only by way
\* of 'idle', and after an explicit stop() the engine neither restarts the
\* browser provider nor begins a switch by itself.
C15_Transitions ==
  /\ [][ServerStaysServer]_vars
  /\ [][NothingAutomaticAfterStop]_vars

----------------------------------------------------------------------------
(* Entry policy *)

\* The instances of each class a state of the engine holds.
BrowserInstancesOf(s) == { i \in 1..MaxProviders : s.provs[i].kind = "browser" }
ServerInstancesOf(s) == { i \in 1..MaxProviders : s.provs[i].kind = "server" }

\* start() has created a browser provider and put it in place: t is the state
\* it leaves.
BrowserFirst(t) ==
  /\ t.providerType = "browser"
  /\ t.provider \in BrowserInstancesOf(t)
  /\ \E k \in 1..Len(t.micro) :
       t.micro[k].kind = "start" /\ t.micro[k].pc = "afterStartBrowser"

\* start() called in state s has created no browser provider, and has put a
\* server provider in place when the fallback is allowed and done nothing else
\* when it is not.
ServerDirectly(s, t, allowServerFallback) ==
  /\ BrowserInstancesOf(t) = BrowserInstancesOf(s)
  /\ IF allowServerFallback
     THEN /\ t.providerType = "server"
          /\ t.provider \in ServerInstancesOf(t) \ ServerInstancesOf(s)
     ELSE /\ t.providerType = s.providerType
          /\ t.provider = s.provider
          /\ ServerInstancesOf(t) = ServerInstancesOf(s)
  /\ t.micro = s.micro

\* C16: in every state in which it is called, start() starts the browser provider
\* first exactly when preferBrowser is true, the runtime has SpeechRecognition,
\* the context is secure and the browser's name is not among the unsupported
\* ones; in every other case it creates no browser provider and starts the
\* server provider directly when allowServerFallback is true.
C16_EntryPolicy ==
  ops < MaxOps =>
    \A preferBrowser, allowServerFallback, stream, ok \in BOOLEAN :
      LET t == start(eng, runtimeInfo, preferBrowser, allowServerFallback, stream, ok)
      IN  ~t.overflow =>
            IF /\ preferBrowser
               /\ runtimeInfo.hasSpeechRecognition
               /\ runtimeInfo.isSecure
               /\ runtimeInfo.browserName \notin DEFAULT_UNSUPPORTED_BROWSERS
            THEN BrowserFirst(t)
            ELSE ServerDirectly(eng, t, allowServerFallback)

\* In a browser on the unsupported list one start() has put an active server
\* provider in place and no browser provider exists.
C16_Witness ==
  /\ ops = 1
  /\ runtimeInfo.hasSpeechRecognition /\ runtimeInfo.isSecure
  /\ runtimeInfo.browserName \in DEFAULT_UNSUPPORTED_BROWSERS
  /\ eng.providerType = "server"
  /\ eng.provider \in ServerInstancesOf(eng)
  /\ eng.provs[eng.provider].active
  /\ BrowserInstancesOf(eng) = {}

----------------------------------------------------------------------------
(* ServerTranscriptionProvider: the claims *)

\* The number of upload attempts (calls of fetch) made for chunk n.
Attempts(n) == Cardinality({ k \in DOMAIN up.fetchLog : up.fetchLog[k] = n })

\* Chunk n is waiting in the queue or inside _uploadChunk.
Held(n) ==
  \/ \E k \in DOMAIN up.queue : up.queue[k] = n
  \/ \E i \in DOMAIN up.loops : up.loops[i].pc # "loop" /\ up.loops[i].item = n

\* The waits between the attempts for chunk n are 400, 800, ... ms, one after
\* each failed attempt but the last.
LinearBackoff(n) ==
  /\ Len(up.waits[n]) <= Attempts(n)
  /\ Attempts(n) <= Len(up.waits[n]) + 1
  /\ \A j \in DOMAIN up.waits[n] : up.waits[n][j] = j * 400

\* Chunk n was dropped: all its attempts failed and it is held no more.
Dropped(n) ==
  /\ Attempts(n) = DEFAULT_MAX_UPLOAD_RETRIES + 1
  /\ up.emitted[n] = 0
  /\ ~Held(n)

\* C17 as stated: for each chunk at most maxUploadRetries (default 3) upload
\* attempts are made in total.
C17_AsStated == \A n \in Chunks : Attempts(n) <= DEFAULT_MAX_UPLOAD_RETRIES

\* C17: for each chunk at most maxUploadRetries + 1 upload attempts are made
\* (the first and maxUploadRetries retries), with waits of 400, 800, ... ms
\* between consecutive attempts; a chunk is dropped after its last failed
\* attempt, and exactly one 'server-upload-failed' error is reported for a
\* dropped chunk and none for any other.
C17_RetryBound ==
  \A n \in Chunks :
    /\ Attempts(n) <= DEFAULT_MAX_UPLOAD_RETRIES + 1
    /\ LinearBackoff(n)
    /\ up.errors[n] = IF Dropped(n) THEN 1 ELSE 0

\* Chunk 0 was attempted four times with waits of 400, 800 and 1200 ms and
\* dropped with one error.
C17_Witness ==
  /\ Attempts(0) = DEFAULT_MAX_UPLOAD_RETRIES + 1
  /\ up.waits[0] = <<400, 800, 1200>>
  /\ up.errors[0] = 1
  /\ ~Held(0)

\* The step in which chunk n is dropped.
DropStep(n) == up'.errors[n] = up.errors[n] + 1

\* The _drainQueue() call goes on with the chunk at the head of the queue, or
\* ends and clears uploading when the queue is empty.
DrainGoesOn ==
  IF up.queue # <<>>
  THEN /\ up'.fetchLog = Append(up.fetchLog, Head(up.queue))
       /\ up'.queue = Tail(up.queue)
       /\ up'.uploading
  ELSE /\ ~up'.uploading
       /\ up'.loops = <<>>

\* An attempt is made in this step for a chunk that is not older than any chunk
\* attempted so far.
AttemptInOrder ==
  up'.fetchLog # up.fetchLog =>
    \A k \in DOMAIN up.fetchLog :
      up.fetchLog[k] <= up'.fetchLog[Len(up'.fetchLog)]

\* C18: the step that drops chunk n goes on with the next queued chunk, every
\* chunk the recorder has delivered is eventually attempted, and no attempt is
\* made for a chunk after the first attempt for a later one.
C18_DropDoesNotBlock ==
  /\ [][ \A n \in Chunks : DropStep(n) => DrainGoesOn ]_vars
  /\ [][ AttemptInOrder ]_vars
  /\ \A n \in Chunks : (up.sequence > n) ~> (Attempts(n) > 0)

\* Chunk 0 was dropped and chunk 1 has been attempted.
C18_Witness ==
  /\ up.errors[0] = 1
  /\ ~Held(0)
  /\ Attempts(1) > 0

\* The _drainQueue() calls that await a response.
InFlight == { i \in DOMAIN up.loops : up.loops[i].pc \in {"fetch", "json"} }

\* The sequence numbers in seq never go down.
Ascending(seq) ==
  \A j, k \in DOMAIN seq : j < k => seq[j] <= seq[k]

SegmentsEmittedOnce(i, segments) ==
  LET n == up.loops[i].item
  IN  /\ up'.emitted[n] = 1
      /\ up'.onSegmentCalls[n] = segments
      /\ up'.errors[n] = 0
      /\ up'.fetchLog = up.fetchLog \/ up'.fetchLog[Len(up'.fetchLog)] # n

StopResolved == up.recorder # "none" /\ ~up.stream

\* C21: once stop() has resolved no chunk is queued and no upload is under way,
\* and no segment is passed to onSegment from then on.
C21_StopDrains ==
  /\ [](StopResolved => up.queue = <<>> /\ up.loops = <<>>)
  /\ [][ StopResolved =>
           /\ up'.emitted = up.emitted
           /\ up'.onSegmentCalls = up.onSegmentCalls ]_vars

----------------------------------------------------------------------------
(* Errors of the server provider *)

\* The codes onError is called with: the two permission codes, a MediaRecorder
\* error, any other.
ErrorCodes == {"denied", "media", "other"}

\* The MediaRecorder of a provider reports an error while the engine is in the
\* server state.
ServerProviderError(p) ==
  /\ eng.providerType = "server"
  /\ RecorderOnError(p)

\* C22: while providerType is 'server', onError changes nothing for any error
\* code, and an error event of a MediaRecorder leaves providerType, the provider
\* in place, both counts and the pending functions as they were.
C22_ServerErrorsAbsorbed ==
  /\ [](eng.providerType = "server" =>
          \A code \in ErrorCodes : onError(eng, code) = eng)
  /\ [][ \A p \in 1..MaxProviders :
           ServerProviderError(p) =>
             /\ eng'.providerType = "server"
             /\ eng'.provider = eng.provider
             /\ eng'.provs = eng.provs
             /\ eng'.browserErrorCount = eng.browserErrorCount
             /\ eng'.browserRestartCount = eng.browserRestartCount
             /\ eng'.micro = eng.micro ]_vars

\* The engine has switched to the server provider after browser errors, the
\* provider records and can report an error.
C22_Witness ==
  /\ eng.providerType = "server"
  /\ eng.micro = <<>>
  /\ eng.provider # 0
  /\ eng.provs[eng.provider].recorder = "recording"
  /\ eng.browserErrorCount > 0

----------------------------------------------------------------------------
(* The result of start() *)

\* C23: whenever start() returns false the engine is left idle: providerType
\* is 'idle', there is no provider and isActive() is false.  Stated for the
\* calls of start() that return without waiting.
C23_FalseLeavesIdle ==
  ops < MaxOps =>
    \A preferBrowser, allowServerFallback, stream, ok \in BOOLEAN :
      LET t == start(eng, runtimeInfo, preferBrowser, allowServerFallback, stream, ok)
      IN  (/\ ~t.overflow
           /\ startReturns(runtimeInfo, preferBrowser, allowServerFallback,
                           stream, ok) = "false")
            => /\ t.providerType = "idle"
               /\ t.provider = 0
               /\ ~isActive(t)

----------------------------------------------------------------------------
(* The accumulator's texts and return value *)

\* C24: getDisplayText() is the texts of the accepted final segments, in the
\* order of their acceptance, followed by the text of the partial held if there
\* is one, with one space between two texts; it is getFinalText() when no partial
\* is held and the partial's text when no final segment was accepted.
C24_DisplayText ==
  /\ getDisplayText = JoinTexts(finalSegments \o partialSegment)
  /\ partialSegment = <<>> => getDisplayText = getFinalText
  /\ finalSegments = <<>> => getDisplayText = getPartialText

\* Two final segments were accepted, texts given with padding, and a partial
\* with an inner run of whitespace is held.
C24_Witness ==
  /\ Len(finalSegments) = 2
  /\ finalSegments[1].text # finalSegments[2].text
  /\ partialSegment # <<>>
  /\ partialSegment[1].text = <<"a", "\t", " ", "b">>
  /\ Len(getDisplayText) > Len(getFinalText) + 1

\* C25: a call of addSegment returns true exactly when it changed
\* getDisplayText() or getSegments(), and false when it left both as they were.
C25_ReturnsWhetherChanged ==
  [][ AddStep =>
        (accLast'.ret = TRUE <=>
           (getDisplayText' # getDisplayText \/ getSegments' # getSegments))
    ]_vars

\* The accepted final segments of this state are the first of the next state's,
\* in the same order.
FinalsKept ==
  /\ Len(finalSegments) <= Len(finalSegments')
  /\ finalSegments = SubSeq(finalSegments', 1, Len(finalSegments))

----------------------------------------------------------------------------
(* AudioAnalyzer: flow streak, clock and calibration *)

\* The longest streak once a run that began at time from has lasted until now'.
StreakWith(from) ==
  IF now' - from > an.longestFlowStreak THEN now' - from ELSE an.longestFlowStreak

\* C27: a speaking run begins at the first frame classified as speaking after a
\* silent one or after start; longestFlowStreak becomes the larger of its value
\* and the run's duration at the first silent frame after the run and at stop()
\* during the run, changes at no other step, never decreases, and is 0 as long
\* as no frame was classified as speaking.
C27_FlowStreak ==
  /\ [](~ an.hasSpokeAtLeastOnce => an.longestFlowStreak = 0)
  /\ [][ /\ an'.longestFlowStreak >= an.longestFlowStreak
         /\ (FrameStep /\ ~ an.isSpeaking /\ an'.isSpeaking) =>
              /\ an'.currentFlowStreakStart = now'
              /\ an'.longestFlowStreak = an.longestFlowStreak
         /\ (FrameStep /\ an.isSpeaking /\ an'.isSpeaking) =>
              /\ an'.currentFlowStreakStart = an.currentFlowStreakStart
              /\ an'.longestFlowStreak = an.longestFlowStreak
         /\ (FrameStep /\ an.isSpeaking /\ ~ an'.isSpeaking) =>
              an'.longestFlowStreak = StreakWith(an.currentFlowStreakStart)
         /\ (StopStep /\ an.isSpeaking) =>
              an'.longestFlowStreak = StreakWith(an.currentFlowStreakStart)
         /\ (~ an.isSpeaking /\ ~ an'.isSpeaking) =>
              an'.longestFlowStreak = an.longestFlowStreak
         /\ (~ FrameStep /\ ~ StopStep) =>
              an'.longestFlowStreak = an.longestFlowStreak
     ]_vars

\* stop() during a second speaking run, shorter than the first one: the value
\* returned is the first run's duration.
C27_Witness ==
  /\ Len(stopResult) = 1
  /\ an.isSpeaking
  /\ an.frameCount = 4
  /\ an.currentFlowStreakStart > an.sessionStartTime
  /\ stopResult[1].longestFlowStreak = 1766
  /\ an.lastFrameTime - an.sessionStartTime > 1766

\* C28: a frame whose volume is NaN is classified as a frame of volume 0 would
\* be in its place, and so is the frame after it, whatever its volume.
C28_NaNAsZero ==
  an.isRunning =>
    \A d \in ClockSteps :
      LET asNaN == Analyze(an, now + d, NaN)
          asZero == Analyze(an, now + d, 0)
      IN  /\ asNaN.isSpeaking = asZero.isSpeaking
          /\ \A d2 \in ClockSteps, rms \in RmsValues :
               Analyze(asNaN, now + d + d2, rms).isSpeaking
                 = Analyze(asZero, now + d + d2, rms).isSpeaking

\* C29: totalSpeakingTime and totalSilenceTime are never negative, and no call
\* of _analyze() or stop() makes either smaller, whichever way the clock moved
\* since the call before.
C29_TotalsMonotonic ==
  /\ [](an.totalSpeakingTime >= 0 /\ an.totalSilenceTime >= 0)
  /\ [][ /\ an'.totalSpeakingTime >= an.totalSpeakingTime
         /\ an'.totalSilenceTime >= an.totalSilenceTime ]_vars

\* onCalibrated is called by this step.
CalibratedCall == Len(onCalibratedLog') = Len(onCalibratedLog) + 1

----------------------------------------------------------------------------
(* The provider in place and the instances that run *)

\* The instance is active, records, holds a capture stream, or has a
\* SpeechRecognition object that can still raise events.
Running(i) ==
  \/ eng.provs[i].active
  \/ eng.provs[i].stream
  \/ eng.provs[i].recorder = "recording"
  \/ \E r \in 1..MaxRecognitions : eng.recs[r].prov = i /\ eng.recs[r].st = "running"

\* C31: whenever no function of the engine is suspended, every provider
\* instance that runs is the provider the engine refers to.
C31_RunningIsCurrent ==
  eng.micro = <<>> =>
    \A i \in 1..MaxProviders : Running(i) => i = eng.provider

----------------------------------------------------------------------------
(* A session started without server fallback *)

\* The one call of the session: start({ allowServerFallback: false, ... }) on a
\* new engine.
StartWithoutFallback(preferBrowser, stream, ok) ==
  /\ ops = 0
  /\ EngStart(preferBrowser, FALSE, stream, ok)

\* After that call only the providers' events and the engine's own suspended
\* functions and timer run.
NoFallbackNext ==
  /\ \/ \E preferBrowser, stream, ok \in BOOLEAN :
          StartWithoutFallback(preferBrowser, stream, ok)
     \/ \E ok \in BOOLEAN : RunMicrotask(ok)
     \/ \E r \in 1..MaxRecognitions : RecognitionOnStart(r)
     \/ \E r \in 1..MaxRecognitions, code \in {"denied", "other"} :
          RecognitionOnError(r, code)
     \/ \E r \in 1..MaxRecognitions : RecognitionOnEnd(r)
     \/ \E ok \in BOOLEAN : RestartTimerFires(ok)
     \/ \E p \in 1..MaxProviders, outcome \in {"ok", "rejected", "throws"} :
          GetUserMediaSettles(p, outcome)
     \/ \E p \in 1..MaxProviders : RecorderOnStop(p)
     \/ \E p \in 1..MaxProviders : RecorderOnError(p)
  /\ UNCHANGED <<anVars, accVars, upVars>>

SpecNoFallback == EngInit /\ [][NoFallbackNext]_vars

\* C32: in a session started with allowServerFallback = false no
\* ServerTranscriptionProvider exists and the engine is never in the server
\* state.
C32_NoServerProvider ==
  /\ ServerInstances = {}
  /\ eng.providerType # "server"

----------------------------------------------------------------------------
(* The two counters of the browser provider *)

\* A SpeechRecognition object reports its start while the engine is in the
\* browser state.
BrowserStarted(r) ==
  /\ eng.providerType = "browser"
  /\ RecognitionOnStart(r)

\* C33: the start of a recognition in the browser state, the first or one after
\* a restart, sets browserErrorCount to 0 and leaves browserRestartCount as it
\* was; browserRestartCount changes only by growing by one, or to 0 by
\* resetTranscript().
C33_CounterResets ==
  [][ /\ \A r \in 1..MaxRecognitions :
           BrowserStarted(r) =>
             /\ eng'.browserErrorCount = 0
             /\ eng'.browserRestartCount = eng.browserRestartCount
      /\ eng'.browserRestartCount # eng.browserRestartCount =>
           \/ eng'.browserRestartCount = eng.browserRestartCount + 1
           \/ EngResetTranscript /\ eng'.browserRestartCount = 0
    ]_vars

\* A restarted recognition has reported its start after errors were counted:
\* the error count is 0 again, the restart count is not.
C33_Witness ==
  /\ eng.providerType = "browser"
  /\ eng.browserErrorCount = 0
  /\ eng.browserRestartCount >= 2
  /\ eng.restarts >= 2
  /\ eng.provider # 0
  /\ eng.provs[eng.provider].active
  /\ \E r \in 1..MaxRecognitions :
       eng.recs[r].prov = eng.provider /\ eng.recs[r].st = "running"

----------------------------------------------------------------------------
(* Hesitation bookkeeping *)

\* C34: the silence recorded in hesitations never exceeds the silence
\* accumulated frame by frame.
C34_HesitationWithinSilence ==
  an.hesitationSilenceTime <= an.totalSilenceTime

\* Frame volumes and clock steps of a session that begins with speech and has
\* several hesitations.  After
\* a first frame of 14 one frame of 0 is silent ([14,0] = 7), 17 resumes speech
\* ([14,0,17] = 10.33), two frames of 0 are silent again ([14,0,17,0,0] = 6.2)
\* and 30 resumes ([..,30] = 10.17).  1766 ms is shorter than
\* hesitationMinDuration, 2000 ms is longer.
LoudnessValues == {0, 14, 17, 30}
FirstLoudness == CHOOSE rms \in LoudnessValues : rms > speechOnThreshold /\ rms <= 2 * speechOffThreshold
LongSteps == {1766, 2000}

HesitationsNext ==
  /\ \/ AnStart(FirstLoudness)
     \/ \E d \in LongSteps, rms \in LoudnessValues : AnAnalyze(d, rms)
     \/ \E d \in LongSteps : AnStop(d)
  /\ UNCHANGED <<accVars, engVars, upVars>>

SpecHesitations == AnInit /\ [][HesitationsNext]_vars

RECURSIVE SumDurations(_)
SumDurations(timings) ==
  IF timings = <<>> THEN 0
  ELSE Head(timings).duration + SumDurations(Tail(timings))

\* C35: hesitationCount is the number of recorded events, hesitationSilenceTime
\* the sum of their durations, every duration is at least hesitationMinDuration,
\* the start offsets increase strictly, the i-th call of onHesitation got the
\* i-th duration and the count i, and a step only appends to the events.
C35_HesitationBookkeeping ==
  /\ [](/\ an.hesitationCount = Len(an.hesitationTimings)
        /\ an.hesitationSilenceTime = SumDurations(an.hesitationTimings)
        /\ \A i \in 1..Len(an.hesitationTimings) :
             /\ an.hesitationTimings[i].duration >= hesitationMinDuration
             /\ \A j \in 1..(i - 1) :
                  an.hesitationTimings[j].startOffset < an.hesitationTimings[i].startOffset
        /\ Len(onHesitationLog) = Len(an.hesitationTimings)
        /\ \A i \in 1..Len(onHesitationLog) :
             onHesitationLog[i] = <<an.hesitationTimings[i].duration, i>>)
  /\ [][ /\ Len(an'.hesitationTimings) >= Len(an.hesitationTimings)
         /\ SubSeq(an'.hesitationTimings, 1, Len(an.hesitationTimings))
              = an.hesitationTimings ]_vars

\* Two hesitations of different durations were recorded in one session.
C35_Witness ==
  /\ Len(an.hesitationTimings) = 2
  /\ an.hesitationTimings[1].duration # an.hesitationTimings[2].duration
  /\ an.hesitationCount = 2

\* C36: once stop() has been called no call changes totalSpeakingTime,
\* totalSilenceTime or longestFlowStreak, every stop() returns a total time
\* equal to their sum, and stop() on an analyzer never started returns zeros.
C36_StopIdempotent ==
  /\ [][ stopResult # <<>> =>
           /\ an'.totalSpeakingTime = an.totalSpeakingTime
           /\ an'.totalSilenceTime = an.totalSilenceTime
           /\ an'.longestFlowStreak = an.longestFlowStreak ]_vars
  /\ [](\A i \in 1..Len(stopResult) :
          /\ startResult = "ok" =>
               an.totalSpeakingTime + an.totalSilenceTime = stopResult[i].totalTime
          /\ startResult # "ok" =>
               /\ stopResult[i].totalTime = 0
               /\ stopResult[i].longestFlowStreak = 0
               /\ an.totalSpeakingTime = 0 /\ an.totalSilenceTime = 0)

----------------------------------------------------------------------------
(* Transcript accumulator: final segments and the partial, reset *)

\* C37: a call of addSegment that accepts a final segment leaves no partial; a
\* call with a final segment whose key was accepted before, or with a blank
\* text, leaves the final segments, the keys and the partial as they were.
C37_FinalClearsPartial ==
  [][ AddStep =>
        IF Trim(AddedSegment.text) = <<>>
           \/ (AddedSegment.isFinal /\ AcceptedBefore(AddedSegment))
        THEN /\ finalSegments' = finalSegments
             /\ finalKeys' = finalKeys
             /\ partialSegment' = partialSegment
             /\ accLast'.ret = FALSE
        ELSE AddedSegment.isFinal =>
               /\ partialSegment' = <<>>
               /\ getPartialText' = <<>>
               /\ Len(finalSegments') = Len(finalSegments) + 1
    ]_vars

\* A server final was accepted while a partial was held, after a first final:
\* no partial is left.
C37_Witness ==
  /\ accLast.op = "addSegment"
  /\ accLast.held
  /\ accLast.ret
  /\ accLast.seg[1].isFinal
  /\ accLast.seg[1].source = "server"
  /\ partialSegment = <<>>
  /\ Len(finalSegments) = 2

----------------------------------------------------------------------------
(* The chunks of a run *)

\* C38: the chunks built since start() carry the sequence numbers 0, 1, 2, ...
\* in the order of their events, the first begins at 0 ms and each later one
\* where the one before it ended; an event without data builds no chunk and
\* takes no number.
C38_ChunksContiguous ==
  /\ [](/\ up.sequence = Len(up.chunks)
        /\ \A k \in 1..Len(up.chunks) :
             /\ up.chunks[k].sequence = k - 1
             /\ up.chunks[k].startMs =
                  (IF k = 1 THEN 0 ELSE up.chunks[k - 1].endMs))
  /\ [][ \A nowElapsed \in ElapsedValues :
           UpDataAvailable(TRUE, nowElapsed) => up' = up ]_vars

\* Two chunks were built, the second after a clock value below the first's end.
C38_Witness ==
  /\ Len(up.chunks) = 2
  /\ up.chunks[1].endMs = 8000
  /\ up.chunks[2].startMs = 8000
  /\ up.chunks[2].endMs = 4000

----------------------------------------------------------------------------
(* The engine and its accumulator: resetTranscript() *)

\* The segments the providers deliver here: a final one, a second final one
\* with the same key (padded, upper case), a final one with another key and
\* a partial one.
DeliveredSegments ==
  { seg \in Segments :
      /\ seg.text \in { <<"a">>, <<" ", "A">> }
      /\ \/ seg.isFinal /\ seg.source = "server"
         \/ ~seg.isFinal /\ seg.source = "browser" }

\* callbacks.onSegment of a provider this engine created: addSegment(segment).
ProviderOnSegment(segment) ==
  /\ \E i \in 1..MaxProviders : eng.provs[i].kind # "free"
  /\ AccAddSegment(segment)
  /\ UNCHANGED engVars

\* engine.start(options), called once.
StartOnce(preferBrowser, allowServerFallback, stream, ok) ==
  /\ ops = 0
  /\ EngStart(preferBrowser, allowServerFallback, stream, ok)
  /\ UNCHANGED accVars

\* engine.resetTranscript(), the accumulator's reset() included.
ResetTranscriptCall ==
  /\ EngResetTranscript
  /\ AccReset

\* A provider's event other than a segment, a suspended function of the engine
\* or its timer.
EngineEvent ==
  /\ \/ \E ok \in BOOLEAN : RunMicrotask(ok)
     \/ \E r \in 1..MaxRecognitions : RecognitionOnStart(r)
     \/ \E r \in 1..MaxRecognitions, code \in {"denied", "other"} :
          RecognitionOnError(r, code)
     \/ \E r \in 1..MaxRecognitions : RecognitionOnEnd(r)
     \/ \E ok \in BOOLEAN : RestartTimerFires(ok)
     \/ \E p \in 1..MaxProviders, outcome \in {"ok", "rejected", "throws"} :
          GetUserMediaSettles(p, outcome)
     \/ \E p \in 1..MaxProviders : RecorderOnStop(p)
     \/ \E p \in 1..MaxProviders : RecorderOnError(p)
  /\ UNCHANGED accVars

TranscriptNext ==
  /\ \/ \E preferBrowser, allowServerFallback, stream, ok \in BOOLEAN :
          StartOnce(preferBrowser, allowServerFallback, stream, ok)
     \/ \E segment \in DeliveredSegments : ProviderOnSegment(segment)
     \/ ResetTranscriptCall
     \/ EngineEvent
  /\ UNCHANGED <<anVars, upVars>>

SpecTranscript == EngInit /\ [][TranscriptNext]_vars

\* What createTranscriptAccumulator() returns.
InitialAccumulator ==
  [ finalSegments |-> <<>>, finalKeys |-> {}, partialSegment |-> <<>> ]

\* C39: a resetTranscript() call leaves the accumulator as it was created (no
\* finals, no keys, no partial, empty display text), so that every final
\* segment with text, the ones rejected as duplicates before the call
\* included, is accepted by the next addSegment; it sets browserErrorCount and
\* browserRestartCount to 0 and changes neither providerType nor the provider
\* in place nor any provider's state.
C39_ResetRestoresInitial ==
  [][ ResetTranscriptCall =>
        /\ AccState' = InitialAccumulator
        /\ getDisplayText' = <<>>
        /\ \A seg \in Segments :
             (seg.isFinal /\ Trim(seg.text) # <<>>) => addSegment(AccState', seg).ret
        /\ eng'.browserErrorCount = 0
        /\ eng'.browserRestartCount = 0
        /\ eng'.providerType = eng.providerType
        /\ eng'.provider = eng.provider
        /\ eng'.provs = eng.provs
        /\ eng'.recs = eng.recs ]_vars

\* resetTranscript() has just run while a browser provider with a restart
\* behind it was running, right after a final segment was rejected as a
\* duplicate; that segment would now be accepted.
C39_Witness ==
  /\ accLast.op = "reset"
  /\ accLast.seg # <<>>
  /\ accLast.seg[1].isFinal
  /\ Trim(accLast.seg[1].text) # <<>>
  /\ addSegment(AccState, accLast.seg[1]).ret
  /\ eng.wasReset
  /\ eng.restarts >= 1
  /\ eng.browserRestartCount = 0
  /\ eng.providerType = "browser"
  /\ isActive(eng)

====
